---- MODULE Spec2Model ----
(***************************************************************************)
(* Model of the Lunas language server's embedded-language bridge           *)
(* (src/src/server/main.ts, the revision that starts at line 1306, and     *)
(* src/src/server/utils/lunas-blocks.ts).                                  *)
(*                                                                         *)
(* Text is modelled as a sequence of one-character strings, so that        *)
(* indexOf, trim, slice, positionAt and offsetAt are computed the way the  *)
(* code computes them.  Offsets are 0-based as in the code; TLA+ sequences *)
(* are 1-based, so character i of the code is s[i + 1].                    *)
(***************************************************************************)
EXTENDS Integers, Sequences, FiniteSets, TLC

VARIABLES
  documents,                \* TextDocuments manager: uri -> text of the open document
  scriptContents,           \* Map<string,string>: virtual path -> content
  scriptVersions,           \* Map<string,number>: virtual path -> version
  activeVirtualFile,        \* the "currently active file" pointer, or NoPath
  totalAdditionalPartChars, \* length of the injected input declarations (shared by all documents)
  totalAdditionalPartLines, \* line count of the injected input declarations
  pc,                       \* position of the handler that is running, "idle" between handlers
  run,                      \* the locals of the running (or last) handler
  mapIn                     \* input and output of the template-diagnostics mapping under SpecMap

vars == <<documents, scriptContents, scriptVersions, activeVirtualFile,
          totalAdditionalPartChars, totalAdditionalPartLines, pc, run, mapIn>>

-----------------------------------------------------------------------------
(* Strings *)

Min(S) == CHOOSE x \in S : \A y \in S : x <= y
Max(S) == CHOOSE x \in S : \A y \in S : x >= y

\* s.slice(a, b) / s.substring(a, b) for 0 <= a, b
Slice(s, a, b) ==
  LET hi == IF b > Len(s) THEN Len(s) ELSE b
  IN  IF a >= hi THEN <<>> ELSE SubSeq(s, a + 1, hi)

\* does t occur in s at offset i
OccursAt(s, t, i) ==
  /\ i >= 0
  /\ i + Len(t) <= Len(s)
  /\ \A k \in 1..Len(t) : s[i + k] = t[k]

\* s.indexOf(t, from): the first offset >= from at which t occurs, or -1
IndexOfFrom(s, t, from) ==
  LET cands == {i \in from..(Len(s) - Len(t)) : OccursAt(s, t, i)}
  IN  IF cands = {} THEN -1 ELSE Min(cands)

IndexOf(s, t) == IndexOfFrom(s, t, 0)

StartsWith(s, t) == OccursAt(s, t, 0)

IsSpace(c) == c \in {" ", "\n"}

\* s.trim()
Trim(s) ==
  LET keep == {i \in 1..Len(s) : ~IsSpace(s[i])}
  IN  IF keep = {} THEN <<>> ELSE SubSeq(s, Min(keep), Max(keep))

\* lines.join("\n")
RECURSIVE JoinLines(_)
JoinLines(lines) ==
  IF lines = <<>> THEN <<>>
  ELSE IF Len(lines) = 1 THEN lines[1]
  ELSE lines[1] \o <<"\n">> \o JoinLines(Tail(lines))

RECURSIVE Concat(_)
Concat(parts) ==
  IF parts = <<>> THEN <<>> ELSE parts[1] \o Concat(Tail(parts))

\* TextDocument.positionAt(offset): [line, character], offset clamped to the text
positionAt(text, offset) ==
  LET off  == IF offset < 0 THEN 0 ELSE IF offset > Len(text) THEN Len(text) ELSE offset
      nls  == {i \in 1..off : text[i] = "\n"}
      from == IF nls = {} THEN 0 ELSE Max(nls)
  IN  <<Cardinality(nls), off - from>>

\* TextDocument.offsetAt(Position.create(line, character))
offsetAt(text, pos) ==
  LET nls       == {i \in 1..Len(text) : text[i] = "\n"}
      lineStart == [l \in 0..Cardinality(nls) |->
                      IF l = 0 THEN 0
                      ELSE CHOOSE i \in nls : Cardinality({j \in nls : j < i}) = l - 1]
      line == pos[1]
      ch   == pos[2]
  IN  IF line > Cardinality(nls) THEN Len(text)
      ELSE IF line < 0 THEN 0
      ELSE LET lo == lineStart[line]
               hi == IF line + 1 <= Cardinality(nls) THEN lineStart[line + 1] ELSE Len(text)
               o  == lo + ch
           IN  IF o > hi THEN hi ELSE IF o < lo THEN lo ELSE o


-----------------------------------------------------------------------------
(* The markup region and the HTML service's parse of it.                   *)
(* A markup region is a sequence of items: a text run                      *)
(* [k |-> "text", s |-> chars], or an element                              *)
(* [k |-> "elem", tag, attrs |-> <<[name, raw]>>, kids |-> items], whose   *)
(* raw attribute values keep their quotes, as node.attributes does.        *)

RECURSIVE AttrText(_)
AttrText(attrs) ==
  IF attrs = <<>> THEN <<>>
  ELSE <<" ">> \o attrs[1].name \o <<"=">> \o attrs[1].raw \o AttrText(Tail(attrs))

OpenTag(it) == <<"<">> \o it.tag \o AttrText(it.attrs) \o <<">">>
CloseTag(it) == <<"<", "/">> \o it.tag \o <<">">>

RECURSIVE RenderItems(_)
RenderItems(items) ==
  IF items = <<>> THEN <<>>
  ELSE LET it == items[1]
       IN  (IF it.k = "text" THEN it.s
            ELSE OpenTag(it) \o RenderItems(it.kids) \o CloseTag(it))
           \o RenderItems(Tail(items))

\* htmlService.parseHTMLDocument: the element nodes in document order (preorder),
\* each with its offsets and its attributes
RECURSIVE NodeList(_, _)
NodeList(items, base) ==
  IF items = <<>> THEN <<>>
  ELSE LET it == items[1]
           w  == Len(RenderItems(<<it>>))
       IN  (IF it.k = "text" THEN <<>>
            ELSE <<[start |-> base,
                    startTagEnd |-> base + Len(OpenTag(it)),
                    end |-> base + w,
                    attrs |-> it.attrs]>>
                 \o NodeList(it.kids, base + Len(OpenTag(it))))
           \o NodeList(Tail(items), base + w)

parseHTMLDocument(items) == NodeList(items, 0)

\* node.attributes[name]: the raw value, or <<>> (falsy) when the node has none
AttrRaw(node, name) ==
  LET hits == {i \in 1..Len(node.attrs) : node.attrs[i].name = name}
  IN  IF hits = {} THEN <<>> ELSE node.attrs[Max(hits)].raw

\* HTMLDocument.findNodeAt(offset): index of the innermost node with
\* start < offset <= end, or 0 for the document root
findNodeAt(nodes, offset) ==
  LET inside == {i \in 1..Len(nodes) : nodes[i].start < offset /\ offset <= nodes[i].end}
  IN  IF inside = {} THEN 0
      ELSE CHOOSE i \in inside : \A j \in inside : nodes[i].start >= nodes[j].start

-----------------------------------------------------------------------------
(* parseTemplateBlocks *)

ForAttr == <<":", "f", "o", "r">>
IfAttr  == <<":", "i", "f">>
LetKw   == <<"l", "e", "t">>
ConstKw == <<"c", "o", "n", "s", "t">>
VarKw   == <<"v", "a", "r">>

\* /<!--[\s\S]*?-->/g
RECURSIVE CommentRanges(_, _)
CommentRanges(html, from) ==
  LET i == IndexOfFrom(html, <<"<", "!", "-", "-">>, from)
      j == IF i = -1 THEN -1 ELSE IndexOfFrom(html, <<"-", "-", ">">>, i + 4)
  IN  IF i = -1 \/ j = -1 THEN <<>>
      ELSE <<[start |-> i, end |-> j + 3]>> \o CommentRanges(html, j + 3)

\* /\$\{([^}]+)\}/g (minLen = 1) and /\$\{([^}]*)\}/g (minLen = 0):
\* the matches as [index, inner]
RECURSIVE InterpMatches(_, _, _)
InterpMatches(html, from, minLen) ==
  LET i == IndexOfFrom(html, <<"$", "{">>, from)
      j == IF i = -1 THEN -1 ELSE IndexOfFrom(html, <<"}">>, i + 2)
  IN  IF i = -1 \/ j = -1 THEN <<>>
      ELSE IF j - (i + 2) < minLen THEN InterpMatches(html, i + 1, minLen)
      ELSE <<[index |-> i, inner |-> Slice(html, i + 2, j)]>>
           \o InterpMatches(html, j + 1, minLen)

\* no span counts as a comment
InComment_never(html, off) == FALSE

InComment(html, off) ==
  LET cr == CommentRanges(html, 0)
  IN  \E k \in 1..Len(cr) : off >= cr[k].start /\ off < cr[k].end

\* step 1: interpolation expressions outside comments
RECURSIVE InterpExprs(_, _)
InterpExprs(html, ms) ==
  IF ms = <<>> THEN <<>>
  ELSE LET m == ms[1]
           raw == m.inner
           exprStartOffset == m.index + 2
           rawTrimmed == Trim(raw)
           leadingSpaces == IndexOf(raw, rawTrimmed)
           trimmedStartOffset == exprStartOffset + leadingSpaces
       IN  (IF InComment(html, m.index) THEN <<>>
            ELSE <<[type |-> "expr",
                    value |-> rawTrimmed,
                    startOffset |-> trimmedStartOffset,
                    endOffset |-> trimmedStartOffset + Len(rawTrimmed),
                    originalPos |-> positionAt(html, trimmedStartOffset)]>>)
           \o InterpExprs(html, Tail(ms))

IsBinding(name) == StartsWith(name, <<":">>) \/ StartsWith(name, <<"@">>)

\* step 1.a: bound attributes and events of one node (collectAttrExprs)
RECURSIVE AttrExprsOfNode(_, _, _)
AttrExprsOfNode(html, node, attrs) ==
  IF attrs = <<>> THEN <<>>
  ELSE LET attrName == attrs[1].name
           raw == AttrRaw(node, attrName)
           rawExpr == Slice(raw, 1, Len(raw) - 1)
           rawTrimmed == Trim(rawExpr)
           leadingSpaces == IndexOf(rawExpr, rawTrimmed)
           valueStartOffset == IndexOfFrom(html, raw, node.start) + 1 + leadingSpaces
       IN  (IF IsBinding(attrName) /\ attrName # ForAttr /\ attrName # IfAttr
            THEN <<[type |-> "expr",
                    value |-> rawTrimmed,
                    startOffset |-> valueStartOffset,
                    endOffset |-> valueStartOffset + Len(rawTrimmed),
                    originalPos |-> positionAt(html, valueStartOffset)]>>
            ELSE <<>>)
           \o AttrExprsOfNode(html, node, Tail(attrs))

RECURSIVE AttrExprs(_, _)
AttrExprs(html, nodes) ==
  IF nodes = <<>> THEN <<>>
  ELSE AttrExprsOfNode(html, nodes[1], nodes[1].attrs) \o AttrExprs(html, Tail(nodes))

\* !/^(?:let|const|var)\s+/.test(inner)
IsDeclOmitted(inner) ==
  ~ \E kw \in {LetKw, ConstKw, VarKw} :
      /\ StartsWith(inner, kw)
      /\ Len(inner) > Len(kw)
      /\ IsSpace(inner[Len(kw) + 1])

\* a clause emitted as written
ForCond_asWritten(inner) == inner

\* the cond of a ForBlk: a clause without declaration keyword gets `let ` prepended
ForCond(inner) == IF IsDeclOmitted(inner) THEN LetKw \o <<" ">> \o inner ELSE inner

\* step 2: findBlocks on one node: its :for block, then its :if block
BlocksOfNode(html, node) ==
  LET rawFor == AttrRaw(node, ForAttr)
      rawCond == AttrRaw(node, IfAttr)
      inner == Trim(Slice(rawFor, 1, Len(rawFor) - 1))
      forBlk == [type |-> "for",
                 cond |-> ForCond(inner),
                 isDeclOmitted |-> IsDeclOmitted(inner),
                 originalPos |-> positionAt(html, IndexOfFrom(html, rawFor, node.start) + 1),
                 startOffset |-> node.start,
                 endOffset |-> node.end]
      ifBlk  == [type |-> "if",
                 cond |-> Trim(Slice(rawCond, 1, Len(rawCond) - 1)),
                 isDeclOmitted |-> FALSE,
                 originalPos |-> positionAt(html, IndexOfFrom(html, rawCond, node.start) + 1),
                 startOffset |-> node.start,
                 endOffset |-> node.end]
  IN  (IF rawFor # <<>> THEN <<forBlk>> ELSE <<>>)
      \o (IF rawCond # <<>> THEN <<ifBlk>> ELSE <<>>)

RECURSIVE FindBlocks(_, _)
FindBlocks(html, nodes) ==
  IF nodes = <<>> THEN <<>>
  ELSE BlocksOfNode(html, nodes[1]) \o FindBlocks(html, Tail(nodes))

SameRange(a, b) == a.startOffset = b.startOffset /\ a.endOffset = b.endOffset

\* no IfBlk is taken out of the block list
MergedIf_never(found, i) == FALSE

\* an IfBlk whose element also carries :for is moved into that ForBlk
MergedIf(found, i) ==
  /\ found[i].type = "if"
  /\ \E j \in 1..Len(found) : j # i /\ found[j].type = "for" /\ SameRange(found[j], found[i])

\* blockRanges after the splice of the moved IfBlks: indexes into `found`, in order
RECURSIVE BlockRangeIdx(_, _)
BlockRangeIdx(found, i) ==
  IF i > Len(found) THEN <<>>
  ELSE (IF MergedIf(found, i) THEN <<>> ELSE <<i>>) \o BlockRangeIdx(found, i + 1)

SeqToSet(q) == {q[k] : k \in 1..Len(q)}

Size(b) == b.endOffset - b.startOffset

\* candidates.reduce((a, b) => size(a) <= size(b) ? a : b) over indexes in list order
RECURSIVE ReduceInnermost(_, _, _)
ReduceInnermost(found, acc, rest) ==
  IF rest = <<>> THEN acc
  ELSE ReduceInnermost(found,
                       IF Size(found[acc]) <= Size(found[rest[1]]) THEN acc ELSE rest[1],
                       Tail(rest))

RECURSIVE FilterIdx(_, _)
FilterIdx(q, keep) ==
  IF q = <<>> THEN <<>>
  ELSE (IF q[1] \in keep THEN <<q[1]>> ELSE <<>>) \o FilterIdx(Tail(q), keep)

\* step 3: the innermost block that strictly contains block i, or 0
ParentOf(found, br, i) ==
  LET parents == FilterIdx(br, {p \in SeqToSet(br) :
                     /\ p # i
                     /\ found[p].startOffset < found[i].startOffset
                     /\ found[p].endOffset > found[i].endOffset})
  IN  IF parents = <<>> THEN 0 ELSE ReduceInnermost(found, parents[1], Tail(parents))

\* the innermost block whose range contains expression em, or 0 (top level)
OwnerOf(found, br, em) ==
  LET containing == FilterIdx(br, {p \in SeqToSet(br) :
                        /\ em.startOffset >= found[p].startOffset
                        /\ em.endOffset <= found[p].endOffset})
  IN  IF containing = <<>> THEN 0
      ELSE ReduceInnermost(found, containing[1], Tail(containing))

\* nodes.sort((a, b) => a.startOffset - b.startOffset): stable
RECURSIVE InsertByStart(_, _)
InsertByStart(sorted, n) ==
  IF sorted = <<>> THEN <<n>>
  ELSE IF sorted[Len(sorted)].startOffset <= n.startOffset THEN Append(sorted, n)
  ELSE Append(InsertByStart(SubSeq(sorted, 1, Len(sorted) - 1), n), sorted[Len(sorted)])

\* the nodes left in the order they were pushed
SortByStart_asPushed(q) == q

RECURSIVE SortByStart(_)
SortByStart(q) ==
  IF q = <<>> THEN <<>>
  ELSE InsertByStart(SortByStart(SubSeq(q, 1, Len(q) - 1)), q[Len(q)])

ExprNode(em) ==
  [type |-> "expr", value |-> em.value, originalPos |-> em.originalPos,
   startOffset |-> em.startOffset]

RECURSIVE ExprsOwnedBy(_, _, _, _)
ExprsOwnedBy(found, br, ems, owner) ==
  IF ems = <<>> THEN <<>>
  ELSE (IF OwnerOf(found, br, ems[1]) = owner THEN <<ExprNode(ems[1])>> ELSE <<>>)
       \o ExprsOwnedBy(found, br, Tail(ems), owner)

\* the IfBlks moved into ForBlk i (pushed while scanning blockRanges backwards)
RECURSIVE MovedIfs(_, _, _)
MovedIfs(found, i, k) ==
  IF k < 1 THEN <<>>
  ELSE (IF k # i /\ found[k].type = "if" /\ found[i].type = "for"
           /\ SameRange(found[k], found[i])
        THEN <<[type |-> "if", cond |-> found[k].cond,
                originalPos |-> found[k].originalPos,
                startOffset |-> found[k].startOffset, children |-> <<>>]>>
        ELSE <<>>)
       \o MovedIfs(found, i, k - 1)

\* the BlkNode of block i with its children, sorted by sortChildren
RECURSIVE BlockTree(_, _, _, _)
RECURSIVE ChildTrees(_, _, _, _, _)
ChildTrees(found, br, ems, parent, rest) ==
  IF rest = <<>> THEN <<>>
  ELSE (IF ParentOf(found, br, rest[1]) = parent
        THEN <<BlockTree(found, br, ems, rest[1])>> ELSE <<>>)
       \o ChildTrees(found, br, ems, parent, Tail(rest))

BlockTree(found, br, ems, i) ==
  [type |-> found[i].type,
   cond |-> found[i].cond,
   originalPos |-> found[i].originalPos,
   startOffset |-> found[i].startOffset,
   children |-> SortByStart(MovedIfs(found, i, Len(found))
                            \o ChildTrees(found, br, ems, i, br)
                            \o ExprsOwnedBy(found, br, ems, i))]

\* parseTemplateBlocks(htmlDoc, htmlService): the top-level BlkNode list
parseTemplateBlocks(html, nodes) ==
  LET exprMatches == InterpExprs(html, InterpMatches(html, 0, 1)) \o AttrExprs(html, nodes)
      found == FindBlocks(html, nodes)
      br == BlockRangeIdx(found, 1)
      rootBlocks == SortByStart(ChildTrees(found, br, exprMatches, 0, br))
      topLevelExprs == ExprsOwnedBy(found, br, exprMatches, 0)
  IN  SortByStart(topLevelExprs \o rootBlocks)

-----------------------------------------------------------------------------
(* generateVirtualTsFromBlks *)

IfHeader(cond)  == <<"i", "f", " ", "(">> \o cond \o <<")", " ", "{">>
ForHeader(cond) == <<"f", "o", "r", " ", "(">> \o cond \o <<")", " ", "{">>
ExprLine(value) == <<" ", " ", "(">> \o value \o <<")", ";">>
\* a generator that never closes a block
Footer_missing == <<>>

Footer == <<"}">>

\* the statement line that opens node n
HeaderOf(n) ==
  IF n.type = "if" THEN IfHeader(n.cond)
  ELSE IF n.type = "for" THEN ForHeader(n.cond)
  ELSE ExprLine(n.value)

ValueOf(n) == IF n.type = "expr" THEN n.value ELSE n.cond

\* an entry whose range runs to the end of the line and its terminator
MappingOf_pastLine(n, cursor) ==
  LET tsStart == cursor + IndexOf(HeaderOf(n), ValueOf(n))
  IN  [value |-> ValueOf(n),
       originalPos |-> n.originalPos,
       tsPos |-> <<tsStart, cursor + Len(HeaderOf(n)) + 1>>]

\* the mapping entry pushed for node n when its line starts at `cursor`
MappingOf(n, cursor) ==
  LET tsStart == cursor + IndexOf(HeaderOf(n), ValueOf(n))
  IN  [value |-> ValueOf(n),
       originalPos |-> n.originalPos,
       tsPos |-> <<tsStart, tsStart + Len(ValueOf(n))>>]

\* emit(nodes): [lines, mappings, cursor] after the nodes were emitted from `cursor`
RECURSIVE Emit(_, _)
Emit(ns, cursor) ==
  IF ns = <<>> THEN [lines |-> <<>>, mappings |-> <<>>, cursor |-> cursor]
  ELSE LET n == ns[1]
           header == HeaderOf(n)
           here ==
             IF n.type = "expr"
             THEN [lines |-> <<header>>,
                   mappings |-> <<MappingOf(n, cursor)>>,
                   cursor |-> cursor + Len(header) + 1]
             ELSE LET body == Emit(n.children, cursor + Len(header) + 1)
                  IN  [lines |-> <<header>> \o body.lines \o <<Footer>>,
                       mappings |-> <<MappingOf(n, cursor)>> \o body.mappings,
                       cursor |-> body.cursor + Len(Footer) + 1]
           rest == Emit(Tail(ns), here.cursor)
       IN  [lines |-> here.lines \o rest.lines,
            mappings |-> here.mappings \o rest.mappings,
            cursor |-> rest.cursor]

\* a generator that emits an empty expression statement for an empty tree
generateVirtualTsFromBlks_stray(blks, originalScriptContent) ==
  LET prefixOffset == Len(originalScriptContent) + 1
      out == Emit(IF blks = <<>>
                  THEN <<[type |-> "expr", value |-> <<>>, originalPos |-> <<0, 0>>,
                          startOffset |-> 0]>>
                  ELSE blks, prefixOffset)
      snippet == JoinLines(out.lines)
  IN  [tempScript |-> originalScriptContent \o <<"\n">> \o snippet \o <<"\n">>,
       mappings |-> out.mappings]

\* generateVirtualTsFromBlks(blks, originalScriptContent): [tempScript, mappings]
generateVirtualTsFromBlks(blks, originalScriptContent) ==
  LET prefixOffset == Len(originalScriptContent) + 1
      out == Emit(blks, prefixOffset)
      snippet == JoinLines(out.lines)
  IN  [tempScript |-> originalScriptContent \o <<"\n">> \o snippet \o <<"\n">>,
       mappings |-> out.mappings]

-----------------------------------------------------------------------------
(* The template pass of onDidChangeContent: mapping engine diagnostics     *)
(* back into the markup region.                                            *)

\* a lookup that falls back to the first entry when no range holds the offset
FindMapping_fallsBack(mappings, start) ==
  LET hits == {k \in 1..Len(mappings) :
                 start >= mappings[k].tsPos[1] /\ start < mappings[k].tsPos[2]}
  IN  IF hits = {} THEN Min({1, Len(mappings)}) ELSE Min(hits)

\* mappings.find(m => d.start >= m.tsPos[0] && d.start < m.tsPos[1]): index or 0
FindMapping(mappings, start) ==
  LET hits == {k \in 1..Len(mappings) :
                 start >= mappings[k].tsPos[1] /\ start < mappings[k].tsPos[2]}
  IN  IF hits = {} THEN 0 ELSE Min(hits)

\* a mapper that advances the start by the offset of d within the entry's range
TemplateDiagnostic_advanced(html, m, d, hStart, htmlIndent) ==
  LET baseOffset == offsetAt(html, m.originalPos)
      htmlStartOffset == baseOffset + (d.start - m.tsPos[1])
      htmlEndOffset == baseOffset + Len(m.value)
      startPos == positionAt(html, htmlStartOffset)
      endPos == positionAt(html, htmlEndOffset)
  IN  [range |-> [start |-> <<hStart + startPos[1], htmlIndent + startPos[2]>>,
                  end |-> <<hStart + endPos[1], htmlIndent + endPos[2]>>],
       message |-> d.message,
       source |-> "Lunas Template TS",
       code |-> d.code]

\* the diagnostic pushed for engine diagnostic d owned by mapping m
TemplateDiagnostic(html, m, d, hStart, htmlIndent) ==
  LET baseOffset == offsetAt(html, m.originalPos)
      htmlStartOffset == baseOffset
      htmlEndOffset == baseOffset + Len(m.value)
      startPos == positionAt(html, htmlStartOffset)
      endPos == positionAt(html, htmlEndOffset)
  IN  [range |-> [start |-> <<hStart + startPos[1], htmlIndent + startPos[2]>>,
                  end |-> <<hStart + endPos[1], htmlIndent + endPos[2]>>],
       message |-> d.message,
       source |-> "Lunas Template TS",
       code |-> d.code]

\* allDiags.forEach(...): the diagnostics the template pass pushes, in order
RECURSIVE MapTemplateDiagnostics(_, _, _, _, _)
MapTemplateDiagnostics(html, mappings, allDiags, hStart, htmlIndent) ==
  IF allDiags = <<>> THEN <<>>
  ELSE LET d == allDiags[1]
           k == FindMapping(mappings, d.start)
       IN  (IF k = 0 THEN <<>>
            ELSE <<TemplateDiagnostic(html, mappings[k], d, hStart, htmlIndent)>>)
           \o MapTemplateDiagnostics(html, mappings, Tail(allDiags), hStart, htmlIndent)

INDENT_SIZE == 2

\* a script pass that does not subtract the lines of the injected declarations
RECURSIVE MapScriptDiagnostics_unshifted(_, _, _, _, _, _)
MapScriptDiagnostics_unshifted(content, script, tsDiags, scriptBlockStartLine, addChars, addLines) ==
  IF tsDiags = <<>> THEN <<>>
  ELSE LET d == tsDiags[1]
           diagStart == positionAt(content, d.start)
           diagEnd == positionAt(content, d.start + d.length)
           mappedStartLine == diagStart[1] + scriptBlockStartLine
           mappedEndLine == diagEnd[1] + scriptBlockStartLine
       IN  (IF d.start >= addChars
            THEN <<[range |-> [start |-> <<mappedStartLine, diagStart[2] + INDENT_SIZE>>,
                               end |-> <<mappedEndLine, diagEnd[2] + INDENT_SIZE>>],
                    message |-> d.message,
                    source |-> "Lunas TS",
                    code |-> d.code]>>
            ELSE <<>>)
           \o MapScriptDiagnostics_unshifted(content, script, Tail(tsDiags),
                                             scriptBlockStartLine, addChars, addLines)

\* the script pass: engine diagnostics of the durable content, moved to the script block
RECURSIVE MapScriptDiagnostics(_, _, _, _, _, _)
MapScriptDiagnostics(content, script, tsDiags, scriptBlockStartLine, addChars, addLines) ==
  IF tsDiags = <<>> THEN <<>>
  ELSE LET d == tsDiags[1]
           diagStart == positionAt(content, d.start)
           diagEnd == positionAt(content, d.start + d.length)
           mappedStartLine == diagStart[1] - addLines + scriptBlockStartLine
           mappedEndLine == diagEnd[1] - addLines + scriptBlockStartLine
           scriptLineCount == Cardinality({i \in 1..Len(script) : script[i] = "\n"}) + 1
       IN  (IF /\ d.start >= addChars
               /\ mappedStartLine >= scriptBlockStartLine
               /\ mappedStartLine <= scriptBlockStartLine + scriptLineCount - 1
            THEN <<[range |-> [start |-> <<mappedStartLine, diagStart[2] + INDENT_SIZE>>,
                               end |-> <<mappedEndLine, diagEnd[2] + INDENT_SIZE>>],
                    message |-> d.message,
                    source |-> "Lunas TS",
                    code |-> d.code]>>
            ELSE <<>>)
           \o MapScriptDiagnostics(content, script, Tail(tsDiags), scriptBlockStartLine,
                                   addChars, addLines)

\* a deduplication that keeps the last of equal diagnostics
RECURSIVE Deduplicate_keepsLast(_)
Deduplicate_keepsLast(diags) ==
  IF diags = <<>> THEN <<>>
  ELSE LET back == Deduplicate_keepsLast(Tail(diags))
           d == diags[1]
       IN  IF \E k \in 1..Len(back) :
                  back[k].range = d.range /\ back[k].message = d.message
           THEN back ELSE <<d>> \o back

\* the deduplication by range and message: the first of equal diagnostics is kept
RECURSIVE Deduplicate(_)
Deduplicate(diags) ==
  IF diags = <<>> THEN <<>>
  ELSE LET front == Deduplicate(SubSeq(diags, 1, Len(diags) - 1))
           d == diags[Len(diags)]
       IN  IF \E k \in 1..Len(front) :
                  front[k].range = d.range /\ front[k].message = d.message
           THEN front ELSE Append(front, d)

-----------------------------------------------------------------------------
(* Point queries: locating the expression under the cursor and preparing   *)
(* the probe document.                                                     *)

NoCtx == [type |-> "none"]

\* step 1 of getLunasTemplateContext: the first ${...} whose inner text holds the offset
RECURSIVE InterpolationAt(_, _, _)
InterpolationAt(html, ms, offsetInHtmlBlock) ==
  IF ms = <<>> THEN NoCtx
  ELSE LET exprStartOffset == ms[1].index + 2
           exprEndOffset == exprStartOffset + Len(ms[1].inner)
       IN  IF offsetInHtmlBlock >= exprStartOffset /\ offsetInHtmlBlock <= exprEndOffset
           THEN [type |-> "interpolation",
                 expression |-> ms[1].inner,
                 offsetInExpression |-> offsetInHtmlBlock - exprStartOffset,
                 expressionStartInHtmlBlock |-> positionAt(html, exprStartOffset),
                 attributeName |-> <<>>]
           ELSE InterpolationAt(html, Tail(ms), offsetInHtmlBlock)

\* step 2 of getLunasTemplateContext: the first bound attribute of the node at the
\* cursor whose value holds the offset
RECURSIVE AttributeAt(_, _, _, _)
AttributeAt(html, node, attrs, offsetInHtmlBlock) ==
  IF attrs = <<>> THEN NoCtx
  ELSE LET attrName == attrs[1].name
           attrValueWithQuotes == AttrRaw(node, attrName)
           attrValue == Slice(attrValueWithQuotes, 1, Len(attrValueWithQuotes) - 1)
           nodeText == Slice(html, node.start, node.startTagEnd)
           attrFullString == attrName \o <<"=">> \o attrValueWithQuotes
           attrValueOffsetInNode == IndexOf(nodeText, attrFullString)
           valueStartOffsetInNode == attrValueOffsetInNode + Len(attrName) + 2
           exprStart == node.start + valueStartOffsetInNode
           exprEnd == exprStart + Len(attrValue)
       IN  IF /\ IsBinding(attrName)
              /\ attrValueOffsetInNode # -1
              /\ offsetInHtmlBlock >= exprStart
              /\ offsetInHtmlBlock <= exprEnd
           THEN [type |-> "attribute",
                 expression |-> attrValue,
                 offsetInExpression |-> offsetInHtmlBlock - exprStart,
                 expressionStartInHtmlBlock |-> positionAt(html, exprStart),
                 attributeName |-> attrName]
           ELSE AttributeAt(html, node, Tail(attrs), offsetInHtmlBlock)

\* getLunasTemplateContext(htmlTextDoc, htmlBlockPosition, htmlService)
getLunasTemplateContext(html, nodes, htmlBlockPosition) ==
  LET offsetInHtmlBlock == offsetAt(html, htmlBlockPosition)
      interp == InterpolationAt(html, InterpMatches(html, 0, 0), offsetInHtmlBlock)
      nodeAtCursor == findNodeAt(nodes, offsetInHtmlBlock)
  IN  IF interp # NoCtx THEN interp
      ELSE IF nodeAtCursor = 0 THEN NoCtx
      ELSE AttributeAt(html, nodes[nodeAtCursor], nodes[nodeAtCursor].attrs,
                       offsetInHtmlBlock)

\* blockMappings.find(m => m.value === exprValue): index or 0
FindMappingByValue(mappings, exprValue) ==
  LET hits == {k \in 1..Len(mappings) : mappings[k].value = exprValue}
  IN  IF hits = {} THEN 0 ELSE Min(hits)

\* prepareTemporaryScriptForExpression(originalScriptContent, expression, ...)
prepareTemporaryScriptForExpression(originalScriptContent, expression, html, nodes) ==
  LET blks == parseTemplateBlocks(html, nodes)
      gen == generateVirtualTsFromBlks(blks, originalScriptContent)
      exprValue == Trim(expression)
      k == FindMappingByValue(gen.mappings, exprValue)
  IN  [tempScript |-> gen.tempScript,
       expressionOffsetInTempScript |-> IF k = 0 THEN 0 ELSE gen.mappings[k].tsPos[1],
       blockMappings |-> gen.mappings]

-----------------------------------------------------------------------------
(* Documents.  A document text is given by what the block extractor        *)
(* returns for it: the @input declarations, the script region, and the     *)
(* markup region with its start line and indentation.                      *)

Uris == {[dir |-> "/w", name |-> "a", ext |-> "lunas"],
         [dir |-> "/w", name |-> "b", ext |-> "lunas"]}

\* getVirtualFilePath(documentUri): <dir>/.<name>.virtual.ts
getVirtualFilePath(uri) == [dir |-> uri.dir, file |-> <<".", uri.name, ".virtual.ts">>]

Paths == {getVirtualFilePath(u) : u \in Uris}

\* a value for "no content" (undefined), distinct from every text
Absent == <<"Absent">>
NoPath == [dir |-> "", file |-> <<>>]
NoUri  == [dir |-> "", name |-> "", ext |-> ""]

\* Map<K, V> as a function on the keys it holds
EmptyMap == [k \in {} |-> k]
Has(m, k) == k \in DOMAIN m
Get(m, k) == IF Has(m, k) THEN m[k] ELSE Absent
Put(m, k, v) == [x \in DOMAIN m \cup {k} |-> IF x = k THEN v ELSE m[x]]
Delete(m, k) == [x \in DOMAIN m \ {k} |-> m[x]]

DeclareLet(in) ==
  <<"d", "e", "c", "l", "a", "r", "e", " ", "l", "e", "t", " ">> \o in.name
  \o <<":", " ">> \o in.type \o <<";">>

RECURSIVE DeclareLines(_)
DeclareLines(inputs) ==
  IF inputs = <<>> THEN <<>> ELSE <<DeclareLet(inputs[1])>> \o DeclareLines(Tail(inputs))

\* Object.entries(inputs).map(...).join("\n") + "\n"
InputDeclarations(inputs) == JoinLines(DeclareLines(inputs)) \o <<"\n">>

\* `${inputDeclarations}${script}`: the durable content of the virtual file
UpdatedScript(text) == InputDeclarations(text.inputs) \o text.script

CountNewlines(s) == Cardinality({i \in 1..Len(s) : s[i] = "\n"})

T(str) == [k |-> "text", s |-> str]
E(tag, attrs, kids) == [k |-> "elem", tag |-> tag, attrs |-> attrs, kids |-> kids]
A(name, inner) == [name |-> name, raw |-> <<"\"">> \o inner \o <<"\"">>]

\* <li :for="i of x">${i}</li>
MarkupLoop ==
  <<E(<<"l", "i">>, <<A(ForAttr, <<"i", " ", "o", "f", " ", "x">>)>>,
      <<T(<<"$", "{", "i", "}">>)>>)>>

TextLoop   == [inputs |-> <<[name |-> <<"n">>, type |-> <<"t">>]>>,
               script |-> <<"x", ";">>, startLine |-> 3,
               markup |-> MarkupLoop, hStart |-> 1, htmlIndent |-> 2]
TextScript == [inputs |-> <<>>, script |-> <<"c", ";">>, startLine |-> 1,
               markup |-> <<>>, hStart |-> 0, htmlIndent |-> 0]

\* the texts a change event can carry
Texts == {TextLoop, TextScript}

\* ${i}<li :for="let i of x">${i}</li>
MarkupTwice ==
  <<T(<<"$", "{", "i", "}">>),
    E(<<"l", "i">>, <<A(ForAttr, <<"l", "e", "t", " ", "i", " ", "o", "f", " ", "x">>)>>,
      <<T(<<"$", "{", "i", "}">>)>>)>>

\* <!--${c}-->
MarkupComment == <<T(<<"<", "!", "-", "-", "$", "{", "c", "}", "-", "-", ">">>)>>

TextTwice   == [inputs |-> <<>>, script |-> <<"x", ";">>, startLine |-> 1,
                markup |-> MarkupTwice, hStart |-> 4, htmlIndent |-> 2]
TextComment == [inputs |-> <<>>, script |-> <<"c", ";">>, startLine |-> 1,
                markup |-> MarkupComment, hStart |-> 4, htmlIndent |-> 2]

-----------------------------------------------------------------------------
(* utils/lunas-blocks.ts: the regions of a file                            *)

ScriptLabel == <<"s", "c", "r", "i", "p", "t", ":">>
HtmlLabel   == <<"h", "t", "m", "l", ":">>
StyleLabel  == <<"s", "t", "y", "l", "e", ":">>

\* s.split("\n")
RECURSIVE SplitLines(_)
SplitLines(s) ==
  LET i == IndexOf(s, <<"\n">>)
  IN  IF i = -1 THEN <<s>>
      ELSE <<Slice(s, 0, i)>> \o SplitLines(Slice(s, i + 1, Len(s)))

\* the offset at which the run of white space that starts at offset i ends
WsRunEnd(text, i) ==
  Min({k \in i..Len(text) : k = Len(text) \/ ~ IsSpace(text[k + 1])})

\* /label\s*\n([\s\S]*?)(?:\n\s*(?:enders)|$)/ on text: whether it matches, the
\* index of the match and its group 1. The greedy \s* gives back down to the last
\* line terminator of the white space after the label; the lazy group ends at the
\* first line terminator that white space and one of the enders follow, or at the
\* end of the text.
MatchRegion(text, label, enders) ==
  LET lastNewline(p) ==
        LET from == p + Len(label)
            nls == {k \in from..(WsRunEnd(text, from) - 1) : text[k + 1] = "\n"}
        IN  IF nls = {} THEN -1 ELSE Max(nls)
      cands == {p \in 0..(Len(text) - Len(label)) :
                  OccursAt(text, label, p) /\ lastNewline(p) # -1}
  IN  IF cands = {} THEN [found |-> FALSE, index |-> -1, full |-> <<>>]
      ELSE LET p == Min(cands)
               cs == lastNewline(p) + 1
               e == Min({k \in cs..Len(text) :
                           \/ k = Len(text)
                           \/ /\ text[k + 1] = "\n"
                              /\ \E en \in enders :
                                   OccursAt(text, en, WsRunEnd(text, k + 1))})
           IN  [found |-> TRUE, index |-> p, full |-> Slice(text, cs, e)]

\* text.substring(0, index).split("\n").length
LineOf(text, index) == CountNewlines(Slice(text, 0, index)) + 1

\* line.startsWith(" ".repeat(n)) ? line.slice(n) : line
StripIndent(line, n) ==
  IF Len(line) >= n /\ \A k \in 1..n : line[k] = " " THEN Slice(line, n, Len(line))
  ELSE line

\* l.match(/^\s*/)[0].length
LeadingWidth(line) == WsRunEnd(line, 0)

\* Math.min of the leading widths of the lines with l.trim() !== "", 0 if none
MinIndent(rawLines) ==
  LET counts == {LeadingWidth(rawLines[k]) :
                   k \in {j \in 1..Len(rawLines) : Trim(rawLines[j]) # <<>>}}
  IN  IF counts = {} THEN 0 ELSE Min(counts)

\* \w
IsWord(c) ==
  c \in {"a", "b", "c", "d", "e", "f", "g", "h", "i", "j", "k", "l", "m", "n", "o",
         "p", "q", "r", "s", "t", "u", "v", "w", "x", "y", "z", "_",
         "0", "1", "2", "3", "4", "5", "6", "7", "8", "9"}

\* content.replace(/<\/(\/\w+)>?/g, "</$1>") from offset `from` on
RECURSIVE Sanitize(_, _)
Sanitize(line, from) ==
  LET i == IndexOfFrom(line, <<"<", "/", "/">>, from)
      j == Min({k \in (i + 3)..Len(line) : k = Len(line) \/ ~ IsWord(line[k + 1])})
  IN  IF i = -1 THEN line
      ELSE IF j = i + 3 THEN Sanitize(line, i + 1)
      ELSE IF j < Len(line) /\ line[j + 1] = ">" THEN Sanitize(line, j + 1)
      ELSE Sanitize(Slice(line, 0, j) \o <<">">> \o Slice(line, j, Len(line)), j + 1)

\* the script region with two columns stripped from its lines
extractScript_matched(text) ==
  LET scriptMatch == MatchRegion(text, ScriptLabel, {StyleLabel})
      startLine == LineOf(text, IndexOf(text, ScriptLabel))
      rawLines == SplitLines(scriptMatch.full)
      scriptLines == [k \in 1..Len(rawLines) |-> StripIndent(rawLines[k], 2)]
  IN  [script |-> JoinLines(scriptLines), startLine |-> startLine,
       endLine |-> startLine + Len(scriptLines) - 1]

extractScript(text) ==
  IF ~ MatchRegion(text, ScriptLabel, {StyleLabel}).found
  THEN [script |-> <<>>, startLine |-> 0, endLine |-> 0]
  ELSE extractScript_matched(text)

\* the markup region with its minimum indentation stripped
extractHTML_matched(text) ==
  LET match == MatchRegion(text, HtmlLabel, {ScriptLabel, StyleLabel})
      startLine == LineOf(text, match.index)
      rawLines == SplitLines(match.full)
      minIndent == MinIndent(rawLines)
      lines == [k \in 1..Len(rawLines) |->
                  Sanitize(StripIndent(rawLines[k], minIndent), 0)]
  IN  [html |-> JoinLines(lines), startLine |-> startLine,
       endLine |-> startLine + Len(lines) - 1, indent |-> minIndent]

\* an extraction that does not look whether the label was found
extractHTML_unguarded(text) == extractHTML_matched(text)

extractHTML(text) ==
  IF ~ MatchRegion(text, HtmlLabel, {ScriptLabel, StyleLabel}).found
  THEN [html |-> <<>>, startLine |-> 0, endLine |-> 0, indent |-> 0]
  ELSE extractHTML_matched(text)

\* the style region with its minimum indentation stripped
extractStyle_matched(text) ==
  LET match == MatchRegion(text, StyleLabel, {ScriptLabel, HtmlLabel})
      rawLines == SplitLines(match.full)
      minIndent == MinIndent(rawLines)
      startLine == LineOf(text, IndexOf(text, StyleLabel))
      lines == [k \in 1..Len(rawLines) |-> StripIndent(rawLines[k], minIndent)]
  IN  [css |-> JoinLines(lines), startLine |-> startLine,
       endLine |-> startLine + Len(lines) - 1, indent |-> minIndent]

extractStyle(text) ==
  IF ~ MatchRegion(text, StyleLabel, {ScriptLabel, HtmlLabel}).found
  THEN [css |-> <<>>, startLine |-> 0, endLine |-> 0, indent |-> 0]
  ELSE extractStyle_matched(text)

\* <p>\n  ${x}</p>
MarkupFile ==
  <<E(<<"p">>, <<>>, <<T(<<"\n", " ", " ", "$", "{", "x", "}">>)>>)>>

\* <p>script:y</p>
MarkupLabelText ==
  <<E(<<"p">>, <<>>, <<T(<<"s", "c", "r", "i", "p", "t", ":", "y">>)>>)>>

Regions == {"script", "html", "style"}

\* the orders in which regions can follow each other in a file, none twice
Orders ==
  LET distinct(o) == \A i1 \in 1..Len(o), i2 \in 1..Len(o) : o[i1] = o[i2] => i1 = i2
      all ==
        {<<>>} \cup {<<r1>> : r1 \in Regions}
        \cup {<<r1, r2>> : r1 \in Regions, r2 \in Regions}
        \cup {<<r1, r2, r3>> : r1 \in Regions, r2 \in Regions, r3 \in Regions}
  IN  {o \in all : distinct(o)}

\* the widths the content of a region can be indented by
Indents == {2, 4}

Pad(n) == [k \in 1..n |-> " "]

\* the label line of a region; a malformed one lacks the colon
LabelLine(region, malformed) ==
  LET label == IF region = "script" THEN ScriptLabel
               ELSE IF region = "html" THEN HtmlLabel ELSE StyleLabel
  IN  IF malformed THEN Slice(label, 0, Len(label) - 1) ELSE label

\* the content lines of a region as written in the file's source
ContentLines(region, markup) ==
  IF region = "script" THEN <<<<"x", ";">>>>
  ELSE IF region = "html" THEN SplitLines(RenderItems(markup))
  ELSE <<<<"p", "{", "}">>>>

\* the lines of a region in a file: its label, then its content indented by ind
RegionLines(region, ind, markup, malformed) ==
  LET content == ContentLines(region, markup)
  IN  <<LabelLine(region, malformed)>>
      \o [k \in 1..Len(content) |-> Pad(ind) \o content[k]]

RECURSIVE FileLines(_, _, _, _)
FileLines(order, ind, markup, malformed) ==
  IF order = <<>> THEN <<>>
  ELSE RegionLines(order[1], ind, markup, order[1] = malformed)
       \o FileLines(Tail(order), ind, markup, malformed)

\* the files a change event can carry: the regions in any order, one of them
\* possibly with a malformed label ("none" for no malformed label)
Files ==
  {[order |-> o, ind |-> i, markup |-> v[1], malformed |-> v[2],
    text |-> JoinLines(FileLines(o, i, v[1], v[2]))] :
     o \in Orders, i \in Indents,
     v \in {<<MarkupFile, "none">>, <<MarkupLabelText, "none">>,
            <<MarkupFile, "script">>, <<MarkupFile, "html">>}}

\* the text of a change event as the handlers extract it from the file; the
\* markup of these files carries no attribute, so a markup region that holds more
\* than the file's markup is kept as text
TextOfFile(f) ==
  LET s == extractScript(f.text)
      h == extractHTML(f.text)
  IN  [inputs |-> <<>>, script |-> s.script, startLine |-> s.startLine,
       markup |-> IF h.html = <<>> THEN <<>>
                  ELSE IF h.html = RenderItems(f.markup) THEN f.markup
                  ELSE <<T(h.html)>>,
       hStart |-> h.startLine, htmlIndent |-> h.indent]

-----------------------------------------------------------------------------

\* the texts of the documents point queries are asked about
QueryTexts == {TextLoop, TextTwice, TextComment}

AllTexts == Texts \cup QueryTexts

\* extractHTML(text).html and htmlService.parseHTMLDocument of it, per text
HtmlTable == [t \in AllTexts |-> RenderItems(t.markup)]
NodesTable == [t \in AllTexts |-> parseHTMLDocument(t.markup)]
HtmlOf(text) == IF text \in AllTexts THEN HtmlTable[text] ELSE RenderItems(text.markup)
NodesOf(text) ==
  IF text \in AllTexts THEN NodesTable[text] ELSE parseHTMLDocument(text.markup)

NoCursor == [region |-> "none", pos |-> <<0, 0>>]

\* the positions a request can carry: one in the script region, one in the style
\* region, one outside every region, and in the markup region (relative to the
\* region, as relPosInHtmlBlock) its first character, the first character of
\* every directive, and the first character inside every ${
CursorsOf(text) ==
  LET html == HtmlOf(text)
      blks == parseTemplateBlocks(html, NodesOf(text))
      mappings == generateVirtualTsFromBlks(blks, <<>>).mappings
      ms == InterpMatches(html, 0, 0)
  IN  {[region |-> r, pos |-> <<0, 0>>] : r \in {"script", "style", "none"}}
      \cup (IF html = <<>> THEN {}
            ELSE {[region |-> "html", pos |-> pos] :
                    pos \in {<<0, 0>>}
                            \cup {mappings[k].originalPos : k \in 1..Len(mappings)}
                            \cup {positionAt(html, ms[k].index + 2) : k \in 1..Len(ms)}})

\* what the engine can report for a content: nothing, or one diagnostic at one of `starts`
EngineDiagnostics(starts, message) ==
  {<<>>} \cup {<<[start |-> st, length |-> 1, message |-> message, code |-> 1]>> :
                 st \in starts}

CursorTable == [t \in AllTexts |-> CursorsOf(t)]
Cursors(text) == IF text \in AllTexts THEN CursorTable[text] ELSE CursorsOf(text)

MaxVersion == 6

\* scriptVersions.get(p) || 0
Ver(p) == IF Has(scriptVersions, p) THEN scriptVersions[p] ELSE 0

\* a handler adds at most 3 to one version
CanRun == \A p \in Paths : Ver(p) + 3 <= MaxVersion

NewRun(kind, uri, path, cursor) ==
  [kind |-> kind, uri |-> uri, path |-> path, cursor |-> cursor,
   installed |-> FALSE,      \* a probe was installed by this handler
   orig |-> Absent,          \* originalScriptContent
   origVer |-> 0,            \* originalVersion / originalVer
   probe |-> Absent,         \* tempScript
   tsOffset |-> 0,           \* the offset the engine is asked at
   engine |-> "none",        \* what the engine's point query returned
   allDiags |-> <<>>,        \* what the engine's diagnostics calls returned for the probe
   scriptDiags |-> <<>>,     \* diagnostics of the script pass
   result |-> "pending",     \* what the handler returned or published
   diagnostics |-> <<>>,     \* the diagnostics sent by sendDiagnostics
   engineThrew |-> FALSE,    \* an engine call of this handler threw
   threw |-> FALSE,          \* an exception left the handler
   mapSaw |-> Absent]        \* the content installed when the result was mapped

Init ==
  /\ documents = EmptyMap
  /\ scriptContents = EmptyMap
  /\ scriptVersions = EmptyMap
  /\ activeVirtualFile = NoPath
  /\ totalAdditionalPartChars = 0
  /\ totalAdditionalPartLines = 0
  /\ pc = "idle"
  /\ run = NewRun("none", NoUri, NoPath, NoCursor)
  /\ mapIn = Absent

\* the handler returns (or throws): only what it returned is kept
Finish(r) == pc' = "idle" /\ run' = [r EXCEPT !.cursor = NoCursor, !.scriptDiags = <<>>,
                                              !.allDiags = <<>>]

-----------------------------------------------------------------------------
(* documents.onDidChangeContent *)

\* lines 2007-2028: the durable install
ChangeContent(uri, text) ==
  /\ pc = "idle"
  /\ CanRun
  /\ LET virtualPath == getVirtualFilePath(uri)
         inputDeclarations == InputDeclarations(text.inputs)
         updatedScript == UpdatedScript(text)
     IN  /\ documents' = Put(documents, uri, text)
         /\ activeVirtualFile' = virtualPath
         /\ totalAdditionalPartChars' = Len(inputDeclarations)
         /\ totalAdditionalPartLines' = CountNewlines(inputDeclarations)
         /\ IF Get(scriptContents, virtualPath) # updatedScript
            THEN /\ scriptContents' = Put(scriptContents, virtualPath, updatedScript)
                 /\ scriptVersions' = Put(scriptVersions, virtualPath, Ver(virtualPath) + 1)
            ELSE UNCHANGED <<scriptContents, scriptVersions>>
         /\ pc' = "durable"
         /\ run' = NewRun("change", uri, virtualPath, NoCursor)
  /\ UNCHANGED mapIn

\* lines 2034-2138: the script pass, then the install of the template probe
ChangeScriptPass ==
  /\ pc = "durable"
  /\ LET text == documents[run.uri]
         html == HtmlOf(text)
         content == scriptContents[run.path]
     IN  \/ \* an engine call of the script pass throws
            /\ Finish([run EXCEPT !.engineThrew = TRUE, !.threw = TRUE, !.result = "threw"])
            /\ UNCHANGED <<scriptContents, scriptVersions>>
         \/ \E tsDiags \in EngineDiagnostics({0, Len(content) - 1}, "script error") :
              LET scriptDiags ==
                    MapScriptDiagnostics(content, text.script, tsDiags, text.startLine,
                                         totalAdditionalPartChars, totalAdditionalPartLines)
              IN  IF html # <<>> /\ Has(scriptContents, run.path)
                  THEN LET originalScriptContent == scriptContents[run.path]
                           blks == parseTemplateBlocks(html, NodesOf(text))
                           gen == generateVirtualTsFromBlks(blks, originalScriptContent)
                           originalVer == scriptVersions[run.path]
                       IN  /\ scriptContents' = Put(scriptContents, run.path, gen.tempScript)
                           /\ scriptVersions' = Put(scriptVersions, run.path, originalVer + 1)
                           /\ pc' = "installed"
                           /\ run' = [run EXCEPT !.scriptDiags = scriptDiags,
                                                 !.installed = TRUE,
                                                 !.orig = originalScriptContent,
                                                 !.origVer = originalVer,
                                                 !.probe = gen.tempScript]
                  ELSE /\ Finish([run EXCEPT !.scriptDiags = scriptDiags,
                                             !.diagnostics = Deduplicate(scriptDiags),
                                             !.result = "published"])
                       /\ UNCHANGED <<scriptContents, scriptVersions>>
  /\ UNCHANGED <<documents, activeVirtualFile, totalAdditionalPartChars,
                 totalAdditionalPartLines, mapIn>>

\* the virtual offsets the engine may report a template diagnostic at
DiagnosticStarts(content, mappings) ==
  {0, Len(content) - 1} \cup {mappings[k].tsPos[1] : k \in 1..Len(mappings)}

\* lines 2139-2142: the engine's diagnostics of the probe
ChangeTemplatePass ==
  /\ pc = "installed"
  /\ run.kind = "change"
  /\ LET text == documents[run.uri]
         gen == generateVirtualTsFromBlks(parseTemplateBlocks(HtmlOf(text), NodesOf(text)),
                                          run.orig)
     IN  \/ \* getSyntacticDiagnostics or getSemanticDiagnostics throws
            Finish([run EXCEPT !.engineThrew = TRUE, !.threw = TRUE, !.result = "threw"])
         \/ \E allDiags \in EngineDiagnostics(DiagnosticStarts(run.probe, gen.mappings),
                                              "template error") :
              /\ pc' = "queried"
              /\ run' = [run EXCEPT !.allDiags = allDiags]
  /\ UNCHANGED <<documents, scriptContents, scriptVersions, activeVirtualFile,
                 totalAdditionalPartChars, totalAdditionalPartLines, mapIn>>

\* a restore that gives the durable content back the version it had before the probe
Restore_reusesVersion ==
  /\ pc = "queried"
  /\ scriptContents' = Put(scriptContents, run.path, run.orig)
  /\ scriptVersions' = Put(scriptVersions, run.path, run.origVer)
  /\ pc' = "restored"
  /\ UNCHANGED <<documents, activeVirtualFile, totalAdditionalPartChars,
                 totalAdditionalPartLines, run, mapIn>>

\* a restore that gives the durable content the version the probe had
Restore_sameAsProbe ==
  /\ pc = "queried"
  /\ scriptContents' = Put(scriptContents, run.path, run.orig)
  /\ scriptVersions' = Put(scriptVersions, run.path, run.origVer + 1)
  /\ pc' = "restored"
  /\ UNCHANGED <<documents, activeVirtualFile, totalAdditionalPartChars,
                 totalAdditionalPartLines, run, mapIn>>

\* lines 2153-2154, 2491-2492, 2784-2785, 3117-3118: the restore
Restore ==
  /\ pc = "queried"
  /\ scriptContents' = Put(scriptContents, run.path, run.orig)
  /\ scriptVersions' = Put(scriptVersions, run.path, run.origVer + 2)
  /\ pc' = "restored"
  /\ UNCHANGED <<documents, activeVirtualFile, totalAdditionalPartChars,
                 totalAdditionalPartLines, run, mapIn>>

\* a change handler that returns without sending diagnostics
ChangePublish_silent ==
  /\ pc = "restored"
  /\ run.kind = "change"
  /\ Finish([run EXCEPT !.result = "null"])
  /\ UNCHANGED <<documents, scriptContents, scriptVersions, activeVirtualFile,
                 totalAdditionalPartChars, totalAdditionalPartLines, mapIn>>

\* lines 2156-2207: mapping, deduplication and publication
ChangePublish ==
  /\ pc = "restored"
  /\ run.kind = "change"
  /\ LET text == documents[run.uri]
         html == HtmlOf(text)
         gen == generateVirtualTsFromBlks(parseTemplateBlocks(html, NodesOf(text)), run.orig)
         templateDiags == MapTemplateDiagnostics(html, gen.mappings, run.allDiags,
                                                 text.hStart, text.htmlIndent)
     IN  Finish([run EXCEPT !.diagnostics = Deduplicate(run.scriptDiags \o templateDiags),
                            !.result = "published",
                            !.mapSaw = Get(scriptContents, run.path)])
  /\ UNCHANGED <<documents, scriptContents, scriptVersions, activeVirtualFile,
                 totalAdditionalPartChars, totalAdditionalPartLines, mapIn>>

\* a close that forgets the content but keeps the version counter
Close_keepsVersion(uri) ==
  /\ pc = "idle"
  /\ Has(documents, uri)
  /\ LET virtualPath == getVirtualFilePath(uri)
     IN  /\ documents' = Delete(documents, uri)
         /\ scriptContents' = Delete(scriptContents, virtualPath)
         /\ scriptVersions' = scriptVersions
         /\ activeVirtualFile' = IF activeVirtualFile = virtualPath THEN NoPath
                                 ELSE activeVirtualFile
         /\ Finish([NewRun("close", uri, virtualPath, NoCursor)
                      EXCEPT !.result = "closed"])
  /\ UNCHANGED <<totalAdditionalPartChars, totalAdditionalPartLines, mapIn>>

\* documents.onDidClose
Close(uri) ==
  /\ pc = "idle"
  /\ Has(documents, uri)
  /\ LET virtualPath == getVirtualFilePath(uri)
     IN  /\ documents' = Delete(documents, uri)
         /\ scriptContents' = Delete(scriptContents, virtualPath)
         /\ scriptVersions' = Delete(scriptVersions, virtualPath)
         /\ activeVirtualFile' = IF activeVirtualFile = virtualPath THEN NoPath
                                 ELSE activeVirtualFile
         /\ Finish([NewRun("close", uri, virtualPath, NoCursor)
                      EXCEPT !.result = "closed"])
  /\ UNCHANGED <<totalAdditionalPartChars, totalAdditionalPartLines, mapIn>>

-----------------------------------------------------------------------------
(* connection.onCompletion, onHover (provideLunasTemplateHover), onDefinition *)

QueryKinds == {"completion", "hover", "definition"}

\* the start of a point query: documents.get(uri), then the virtual path it will
\* use: the active-file pointer when it is set, else the path of the request's
\* own uri, whose durable content is loaded when the store does not hold it
QueryBegin(kind, uri, cursor) ==
  /\ pc = "idle"
  /\ CanRun
  /\ IF ~Has(documents, uri)
     THEN /\ Finish([NewRun(kind, uri, NoPath, cursor) EXCEPT !.result = "null"])
          /\ UNCHANGED <<scriptContents, scriptVersions, totalAdditionalPartChars,
                         totalAdditionalPartLines>>
     ELSE LET text == documents[uri]
              currentActiveVirtualFile ==
                IF activeVirtualFile # NoPath THEN activeVirtualFile
                ELSE getVirtualFilePath(uri)
              load == activeVirtualFile = NoPath
                      /\ ~Has(scriptContents, currentActiveVirtualFile)
              currentFileInputDeclarations == InputDeclarations(text.inputs)
          IN  /\ IF load
                 THEN /\ scriptContents' = Put(scriptContents, currentActiveVirtualFile,
                                               UpdatedScript(text))
                      /\ scriptVersions' = Put(scriptVersions, currentActiveVirtualFile,
                                               Ver(currentActiveVirtualFile) + 1)
                      /\ totalAdditionalPartChars' = Len(currentFileInputDeclarations)
                      /\ totalAdditionalPartLines' =
                           CountNewlines(currentFileInputDeclarations)
                 ELSE UNCHANGED <<scriptContents, scriptVersions,
                                  totalAdditionalPartChars, totalAdditionalPartLines>>
              /\ pc' = "resolved"
              /\ run' = NewRun(kind, uri, currentActiveVirtualFile, cursor)
  /\ UNCHANGED <<documents, activeVirtualFile, mapIn>>

\* lines 2444-2446, 2770-2772, 3105-3107: the probe install of a point query
InstallProbe(prep, originalScriptContent, offsetInExpression) ==
  LET originalVersion == Ver(run.path)
  IN  /\ scriptContents' = Put(scriptContents, run.path, prep.tempScript)
      /\ scriptVersions' = Put(scriptVersions, run.path, originalVersion + 1)
      /\ pc' = "installed"
      /\ run' = [run EXCEPT !.installed = TRUE,
                            !.orig = originalScriptContent,
                            !.origVer = originalVersion,
                            !.probe = prep.tempScript,
                            !.tsOffset = prep.expressionOffsetInTempScript
                                         + offsetInExpression]

\* the markup-region branch of a point query, given what getLunasTemplateContext
\* returned and the stored content of the virtual file the handler uses
TemplateQuery(templateContext, originalScriptContent, html, nodes) ==
  IF /\ run.kind = "definition"
     /\ templateContext # NoCtx
     /\ templateContext.attributeName = ForAttr
  THEN \* lines 3063-3075: the :for value itself is the definition
       /\ Finish([run EXCEPT !.result = "location"])
       /\ UNCHANGED <<scriptContents, scriptVersions>>
  ELSE IF templateContext = NoCtx
  THEN \* no template expression at the cursor: markup assistance only
       /\ Finish([run EXCEPT !.result =
                    IF run.kind = "completion" THEN "markup" ELSE "null"])
       /\ UNCHANGED <<scriptContents, scriptVersions>>
  ELSE IF originalScriptContent = Absent \/ originalScriptContent = <<>>
  THEN /\ Finish([run EXCEPT !.result = "null"])
       /\ UNCHANGED <<scriptContents, scriptVersions>>
  ELSE InstallProbe(prepareTemporaryScriptForExpression(
                      originalScriptContent, templateContext.expression, html, nodes),
                    originalScriptContent, templateContext.offsetInExpression)

\* the branch the handler takes for the cursor; in the markup region, inside a
\* template expression, the probe is prepared and installed
QueryDispatch ==
  /\ pc = "resolved"
  /\ IF HtmlOf(documents[run.uri]) # <<>> /\ run.cursor.region = "html"
     THEN TemplateQuery(getLunasTemplateContext(HtmlOf(documents[run.uri]),
                                                NodesOf(documents[run.uri]),
                                                run.cursor.pos),
                        Get(scriptContents, run.path),
                        HtmlOf(documents[run.uri]), NodesOf(documents[run.uri]))
     ELSE IF run.cursor.region = "style"
     THEN /\ Finish([run EXCEPT !.result =
                       IF run.kind = "completion" THEN "style" ELSE "null"])
          /\ UNCHANGED <<scriptContents, scriptVersions>>
     ELSE IF run.cursor.region = "script" /\ documents[run.uri].script # <<>>
     THEN \* the script-block query: the engine is asked without a probe
          /\ \E r \in {"items", "null", "threw"} :
               Finish([run EXCEPT !.result = r, !.engineThrew = (r = "threw"),
                                  !.threw = (r = "threw")])
          /\ UNCHANGED <<scriptContents, scriptVersions>>
     ELSE /\ Finish([run EXCEPT !.result = "null"])
          /\ UNCHANGED <<scriptContents, scriptVersions>>
  /\ UNCHANGED <<documents, activeVirtualFile, totalAdditionalPartChars,
                 totalAdditionalPartLines, mapIn>>

\* what an engine call between install and restore can do in each handler:
\* completion calls getProgram and the diagnostics outside its try block
\* ("throwBefore") and getCompletionsAtPosition inside it ("throwInTry");
\* hover and definition call the engine outside any try block
EngineOutcomes(kind) ==
  IF kind = "completion" THEN {"some", "none", "throwBefore", "throwInTry"}
  ELSE {"some", "none", "throwBefore"}

\* the engine calls made while the probe is installed
QueryEngine ==
  /\ pc = "installed"
  /\ run.kind \in QueryKinds
  /\ \E r \in EngineOutcomes(run.kind) :
       IF r = "throwBefore"
       THEN Finish([run EXCEPT !.engineThrew = TRUE, !.threw = TRUE, !.result = "threw"])
       ELSE /\ pc' = "queried"
            /\ run' = [run EXCEPT !.engine = IF r = "throwInTry" THEN "none" ELSE r,
                                  !.engineThrew = (r = "throwInTry")]
  /\ UNCHANGED <<documents, scriptContents, scriptVersions, activeVirtualFile,
                 totalAdditionalPartChars, totalAdditionalPartLines, mapIn>>

\* the result of the handler, mapped after the restore
QueryResult(kind, engine) ==
  IF engine = "some"
  THEN IF kind = "completion" THEN "items"
       ELSE IF kind = "hover" THEN "hover" ELSE "locations"
  ELSE IF kind = "completion" THEN "markup" ELSE "null"

QueryMap ==
  /\ pc = "restored"
  /\ run.kind \in QueryKinds
  /\ Finish([run EXCEPT !.result = QueryResult(run.kind, run.engine),
                        !.mapSaw = IF run.engine = "some"
                                   THEN Get(scriptContents, run.path) ELSE Absent])
  /\ UNCHANGED <<documents, scriptContents, scriptVersions, activeVirtualFile,
                 totalAdditionalPartChars, totalAdditionalPartLines, mapIn>>

-----------------------------------------------------------------------------

Next ==
  \/ \E uri \in Uris, text \in Texts : ChangeContent(uri, text)
  \/ ChangeScriptPass
  \/ ChangeTemplatePass
  \/ Restore
  \/ ChangePublish
  \/ \E uri \in Uris : Close(uri)
  \/ \E kind \in QueryKinds, uri \in Uris :
       \E cursor \in (IF Has(documents, uri) THEN Cursors(documents[uri])
                      ELSE {NoCursor}) :
         QueryBegin(kind, uri, cursor)
  \/ QueryDispatch
  \/ QueryEngine
  \/ QueryMap

Spec == Init /\ [][Next]_vars
-----------------------------------------------------------------------------
(* Point queries on one open document: the state after its change event,   *)
(* with no diagnostics reported, then completion, hover and definition      *)
(* requests.                                                               *)

\* the run of the change event that opened uri with text
OpenedRun(uri, text) ==
  LET gen == generateVirtualTsFromBlks(parseTemplateBlocks(HtmlOf(text), NodesOf(text)),
                                       UpdatedScript(text))
  IN  IF HtmlOf(text) = <<>>
      THEN [NewRun("change", uri, getVirtualFilePath(uri), NoCursor)
              EXCEPT !.result = "published"]
      ELSE [NewRun("change", uri, getVirtualFilePath(uri), NoCursor)
              EXCEPT !.installed = TRUE,
                     !.orig = UpdatedScript(text),
                     !.origVer = 1,
                     !.probe = gen.tempScript,
                     !.result = "published",
                     !.mapSaw = UpdatedScript(text)]

InitQuery ==
  \E uri \in Uris, text \in QueryTexts :
    /\ documents = Put(EmptyMap, uri, text)
    /\ scriptContents = Put(EmptyMap, getVirtualFilePath(uri), UpdatedScript(text))
    /\ scriptVersions = Put(EmptyMap, getVirtualFilePath(uri),
                            IF HtmlOf(text) = <<>> THEN 1 ELSE 3)
    /\ activeVirtualFile = getVirtualFilePath(uri)
    /\ totalAdditionalPartChars = Len(InputDeclarations(text.inputs))
    /\ totalAdditionalPartLines = CountNewlines(InputDeclarations(text.inputs))
    /\ pc = "idle"
    /\ run = OpenedRun(uri, text)
    /\ mapIn = Absent

NextQuery ==
  \/ \E kind \in QueryKinds, uri \in Uris :
       \E cursor \in (IF Has(documents, uri) THEN Cursors(documents[uri])
                      ELSE {NoCursor}) :
         QueryBegin(kind, uri, cursor)
  \/ QueryDispatch
  \/ QueryEngine
  \/ Restore
  \/ QueryMap

SpecQuery == InitQuery /\ [][NextQuery]_vars

-----------------------------------------------------------------------------
(* The template pass on its own: a markup region, a durable script and the *)
(* engine's diagnostics for the probe, taken through parseTemplateBlocks,  *)
(* generateVirtualTsFromBlks and the mapping of lines 2156-2207.           *)

\* <li :for="let i of x">${i}</li>
MarkupLoopLet ==
  <<E(<<"l", "i">>, <<A(ForAttr, <<"l", "e", "t", " ", "i", " ", "o", "f", " ", "x">>)>>,
      <<T(<<"$", "{", "i", "}">>)>>)>>

\* <p :if=" ok">${ ab }</p>
MarkupIf ==
  <<E(<<"p">>, <<A(IfAttr, <<" ", "o", "k">>)>>,
      <<T(<<"$", "{", " ", "a", "b", " ", "}">>)>>)>>

\* <a @go="fn">${ }</a>
MarkupEmpty ==
  <<E(<<"a">>, <<A(<<"@", "g", "o">>, <<"f", "n">>)>>,
      <<T(<<"$", "{", " ", "}">>)>>)>>

\* <p>\n${ab}</p>${c}
MarkupLines ==
  <<E(<<"p">>, <<>>, <<T(<<"\n", "$", "{", "a", "b", "}">>)>>),
    T(<<"$", "{", "c", "}">>)>>

\* <li :for="i of x" :if="i">${i}</li>
MarkupBoth ==
  <<E(<<"l", "i">>, <<A(ForAttr, <<"i", " ", "o", "f", " ", "x">>), A(IfAttr, <<"i">>)>>,
      <<T(<<"$", "{", "i", "}">>)>>)>>

\* <u :for="a of b"><li :for="i of x" :if="i">${i}</li></u>
MarkupNested ==
  <<E(<<"u">>, <<A(ForAttr, <<"a", " ", "o", "f", " ", "b">>)>>, MarkupBoth)>>

\* <p :if="a">${b}<i :if="c"></i></p>${d}
MarkupOrder ==
  <<E(<<"p">>, <<A(IfAttr, <<"a">>)>>,
      <<T(<<"$", "{", "b", "}">>), E(<<"i">>, <<A(IfAttr, <<"c">>)>>, <<>>)>>),
    T(<<"$", "{", "d", "}">>)>>

\* <b :for="const c of y"></b><b :for="lets of y"></b>
MarkupKeywords ==
  <<E(<<"b">>, <<A(ForAttr, <<"c", "o", "n", "s", "t", " ", "c", " ", "o", "f", " ", "y">>)>>,
      <<>>),
    E(<<"b">>, <<A(ForAttr, <<"l", "e", "t", "s", " ", "o", "f", " ", "y">>)>>, <<>>)>>

\* <p>hi</p>
MarkupPlain == <<E(<<"p">>, <<>>, <<T(<<"h", "i">>)>>)>>

\* <p :if="">${b}</p><i :for="x"></i>
MarkupMalformed ==
  <<E(<<"p">>, <<A(IfAttr, <<>>)>>, <<T(<<"$", "{", "b", "}">>)>>),
    E(<<"i">>, <<A(ForAttr, <<"x">>)>>, <<>>)>>

\* <!--${c}-->${d}
MarkupCommented ==
  <<T(<<"<", "!", "-", "-", "$", "{", "c", "}", "-", "-", ">", "$", "{", "d", "}">>)>>

\* <a b="x" :if="x"></a>
MarkupSameValue ==
  <<E(<<"a">>, <<A(<<"b">>, <<"x">>), A(IfAttr, <<"x">>)>>, <<>>)>>

Markups == {MarkupLoop, MarkupLoopLet, MarkupIf, MarkupEmpty, MarkupLines,
            MarkupBoth, MarkupNested, MarkupOrder, MarkupKeywords, MarkupPlain,
            MarkupMalformed, MarkupCommented, MarkupSameValue}

\* the durable scripts the template pass can find stored
Scripts == {<<>>, <<"x", ";">>}

\* the start line and indentation of the markup region
Shifts == {<<0, 0>>, <<1, 2>>}

MaxDiags == 1

\* what the engine can report for a probe: up to n diagnostics, the k-th with
\* code k, each at one of `starts`
RECURSIVE DiagnosticLists(_, _)
DiagnosticLists(starts, n) ==
  IF n = 0 THEN {<<>>}
  ELSE LET shorter == DiagnosticLists(starts, n - 1)
       IN  shorter \cup
           {Append(ds, [start |-> st, length |-> 1, message |-> "template error",
                        code |-> n]) :
              ds \in {x \in shorter : Len(x) = n - 1}, st \in starts}

MapInputs ==
  {[stage |-> "input", markup |-> m, html |-> RenderItems(m), script |-> sc,
    hStart |-> sh[1], htmlIndent |-> sh[2],
    blks |-> <<>>, tempScript |-> <<>>, mappings |-> <<>>, allDiags |-> <<>>,
    published |-> <<>>] :
     m \in Markups, sc \in Scripts, sh \in Shifts}

InitMap ==
  /\ documents = EmptyMap
  /\ scriptContents = EmptyMap
  /\ scriptVersions = EmptyMap
  /\ activeVirtualFile = NoPath
  /\ totalAdditionalPartChars = 0
  /\ totalAdditionalPartLines = 0
  /\ pc = "idle"
  /\ run = NewRun("none", NoUri, NoPath, NoCursor)
  /\ mapIn \in MapInputs

MapFrame == UNCHANGED <<documents, scriptContents, scriptVersions, activeVirtualFile,
                        totalAdditionalPartChars, totalAdditionalPartLines, pc, run>>

\* lines 2120-2129: the directive tree and the probe with its position map
MapGenerate ==
  /\ mapIn.stage = "input"
  /\ LET blks == parseTemplateBlocks(mapIn.html, parseHTMLDocument(mapIn.markup))
         gen == generateVirtualTsFromBlks(blks, mapIn.script)
     IN  mapIn' = [mapIn EXCEPT !.stage = "generated",
                                !.blks = blks,
                                !.tempScript = gen.tempScript,
                                !.mappings = gen.mappings]
  /\ MapFrame

\* lines 2139-2142: the engine's diagnostics, at any offset of the probe
MapEngine ==
  /\ mapIn.stage = "generated"
  /\ \E allDiags \in DiagnosticLists(0..(Len(mapIn.tempScript) - 1), MaxDiags) :
       mapIn' = [mapIn EXCEPT !.stage = "diagnosed", !.allDiags = allDiags]
  /\ MapFrame

\* lines 2156-2207: mapping, deduplication and publication
MapPublish ==
  /\ mapIn.stage = "diagnosed"
  /\ mapIn' = [mapIn EXCEPT
                 !.stage = "published",
                 !.published = Deduplicate(MapTemplateDiagnostics(
                                 mapIn.html, mapIn.mappings, mapIn.allDiags,
                                 mapIn.hStart, mapIn.htmlIndent))]
  /\ MapFrame

NextMap == MapGenerate \/ MapEngine \/ MapPublish

SpecMap == InitMap /\ [][NextMap]_vars

-----------------------------------------------------------------------------
(* The virtual file store and the handlers that install probes into it.    *)

\* C1: when a handler that installed a probe has ended, on whatever exit path, the
\* content stored for the virtual path it used is again the content that was stored
\* before the probe was installed.
C1_DurableContentRestored ==
  (pc = "idle" /\ run.installed) => Get(scriptContents, run.path) = run.orig

\* C2: every step that changes the content stored for a path (durable install,
\* probe install, restore) gives the path a strictly greater version, and the
\* restore gives a version greater than the one the durable content had before
\* the probe.
C2_VersionStrictlyIncreases ==
  [][/\ \A p \in Paths :
          (Has(scriptContents', p) /\ Get(scriptContents', p) # Get(scriptContents, p))
            => Ver(p)' > Ver(p)
     /\ (pc = "queried" /\ pc' = "restored") => Ver(run.path)' > run.origVer]_vars

\* a restore has happened: the durable content is back under a version two above
\* the one it had
C2_Restored ==
  /\ pc = "restored"
  /\ Get(scriptContents, run.path) = run.orig
  /\ Ver(run.path) = run.origVer + 2

\* C3: no step of a completion, hover or definition request for a document changes
\* the content or the version stored for the virtual path of another document.
C3_QueryTouchesOwnFileOnly ==
  [][run'.kind \in QueryKinds =>
       \A p \in Paths \ {getVirtualFilePath(run'.uri)} :
         /\ Get(scriptContents', p) = Get(scriptContents, p)
         /\ Ver(p)' = Ver(p)]_vars

\* C4: a completion, hover or definition request during which an engine call threw
\* ends without the exception leaving the handler, with no result (the markup
\* fallback of completion counted as none), and with the stored content as before.
C4_EngineThrowIsContained ==
  (pc = "idle" /\ run.kind \in QueryKinds /\ run.engineThrew) =>
    /\ ~run.threw
    /\ run.result \in {"null", "markup"}
    /\ run.installed => Get(scriptContents, run.path) = run.orig

\* C5: in a point query the engine's result is mapped while the probe is the
\* installed content: the restore comes after the mapping.
C5_MappedBeforeRestore ==
  (run.kind \in QueryKinds /\ run.mapSaw # Absent) => run.mapSaw = run.probe

\* C6: the step of a close event for a document leaves neither content nor version
\* for the document's virtual path, leaves the active-file pointer not naming that
\* path, and leaves the entries of every other path and a pointer to another path
\* as they were.
C6_CloseEvicts ==
  [][(run'.kind = "close" /\ documents' # documents) =>
       LET p == getVirtualFilePath(run'.uri)
       IN  /\ ~Has(scriptContents', p)
           /\ ~Has(scriptVersions', p)
           /\ activeVirtualFile' # p
           /\ activeVirtualFile # p => activeVirtualFile' = activeVirtualFile
           /\ \A q \in Paths \ {p} :
                /\ Has(scriptContents', q) = Has(scriptContents, q)
                /\ Get(scriptContents', q) = Get(scriptContents, q)
                /\ Has(scriptVersions', q) = Has(scriptVersions, q)
                /\ Ver(q)' = Ver(q)]_vars

\* a document was closed after change and query events on both documents, while
\* the other document is still held
C6_Closed ==
  /\ pc = "idle"
  /\ run.kind = "close"
  /\ ~Has(scriptContents, run.path)
  /\ ~Has(scriptVersions, run.path)
  /\ \E q \in Paths \ {run.path} : Has(scriptContents, q) /\ Ver(q) >= 3

-----------------------------------------------------------------------------
(* The mapping of template diagnostics.                                    *)

\* the entry that owns virtual offset s: the first whose range holds it, or 0
OwnerEntry(s) ==
  LET hits == {j \in 1..Len(mapIn.mappings) :
                 mapIn.mappings[j].tsPos[1] <= s /\ s < mapIn.mappings[j].tsPos[2]}
  IN  IF hits = {} THEN 0 ELSE CHOOSE j \in hits : \A i \in hits : j <= i

\* a position of the markup region in full-document coordinates
Shifted(pos) == <<mapIn.hStart + pos[1], mapIn.htmlIndent + pos[2]>>

\* the offset in the markup region of a published position
RegionOffset(pos) ==
  offsetAt(mapIn.html, <<pos[1] - mapIn.hStart, pos[2] - mapIn.htmlIndent>>)

\* C7: an engine diagnostic whose start lies in no entry's virtual range is not
\* among the published diagnostics.
C7_UnmappedDiagnosticDropped ==
  mapIn.stage = "published" =>
    \A k \in 1..Len(mapIn.allDiags) :
      OwnerEntry(mapIn.allDiags[k].start) = 0 =>
        \A q \in 1..Len(mapIn.published) :
          mapIn.published[q].code # mapIn.allDiags[k].code

\* a diagnostic in the synthesized part of a probe that has entries was dropped
C7_Dropped ==
  /\ mapIn.stage = "published"
  /\ Len(mapIn.mappings) >= 1
  /\ \E k \in 1..Len(mapIn.allDiags) :
       /\ mapIn.allDiags[k].start > Len(mapIn.script)
       /\ OwnerEntry(mapIn.allDiags[k].start) = 0
  /\ mapIn.published = <<>>

\* C8 (as the code has it): a template diagnostic owned by entry e is published
\* with its start at e's original (line, column) shifted by the region's start
\* line and indentation, wherever in e's range the diagnostic starts.
C8_StartIsEntryOrigin ==
  mapIn.stage = "published" =>
    \A k \in 1..Len(mapIn.allDiags) :
      LET d == mapIn.allDiags[k]
          j == OwnerEntry(d.start)
      IN  j # 0 =>
            /\ \E q \in 1..Len(mapIn.published) :
                 /\ mapIn.published[q].message = d.message
                 /\ mapIn.published[q].range.start
                      = Shifted(mapIn.mappings[j].originalPos)
            /\ \A q \in 1..Len(mapIn.published) :
                 mapIn.published[q].code = d.code =>
                   mapIn.published[q].range.start
                     = Shifted(mapIn.mappings[j].originalPos)

\* a diagnostic that starts after the first character of its entry was published
C8_PublishedInsideEntry ==
  /\ mapIn.stage = "published"
  /\ \E k \in 1..Len(mapIn.allDiags) :
       LET d == mapIn.allDiags[k]
           j == OwnerEntry(d.start)
       IN  /\ j # 0
           /\ d.start > mapIn.mappings[j].tsPos[1]
           /\ \E q \in 1..Len(mapIn.published) : mapIn.published[q].code = d.code

\* C8 (as stated): the published start is e's original (line, column) advanced by
\* the offset of the diagnostic within e's virtual range, then shifted.
C8_StartAdvancedByRelativeOffset ==
  mapIn.stage = "published" =>
    \A k \in 1..Len(mapIn.allDiags) :
      LET d == mapIn.allDiags[k]
          j == OwnerEntry(d.start)
      IN  j # 0 =>
            \A q \in 1..Len(mapIn.published) :
              mapIn.published[q].code = d.code =>
                mapIn.published[q].range.start
                  = Shifted(positionAt(mapIn.html,
                                       offsetAt(mapIn.html, mapIn.mappings[j].originalPos)
                                       + (d.start - mapIn.mappings[j].tsPos[1])))

\* C9: the range of a published template diagnostic covers exactly the text of
\* the owning expression as the markup has it: the expression text of the entry,
\* or, for a loop clause written without its keyword, that text without the
\* keyword the parser put in front.
C9_RangeCoversExpression ==
  mapIn.stage = "published" =>
    \A k \in 1..Len(mapIn.allDiags) :
      LET d == mapIn.allDiags[k]
          j == OwnerEntry(d.start)
      IN  j # 0 =>
            \A q \in 1..Len(mapIn.published) :
              mapIn.published[q].code = d.code =>
                LET value == mapIn.mappings[j].value
                    covered == Slice(mapIn.html,
                                     RegionOffset(mapIn.published[q].range.start),
                                     RegionOffset(mapIn.published[q].range.end))
                IN  \/ covered = value
                    \/ /\ StartsWith(value, LetKw \o <<" ">>)
                       /\ covered = SubSeq(value, 5, Len(value))

\* C10: an engine diagnostic that starts at the start of an entry's virtual range
\* is published at the entry's original (line, column) (here with the region's
\* shift added).
C10_AnchorRoundTrip ==
  mapIn.stage = "published" =>
    \A k \in 1..Len(mapIn.allDiags), j \in 1..Len(mapIn.mappings) :
      mapIn.allDiags[k].start = mapIn.mappings[j].tsPos[1] =>
        \E q \in 1..Len(mapIn.published) :
          /\ mapIn.published[q].message = mapIn.allDiags[k].message
          /\ mapIn.published[q].range.start = Shifted(mapIn.mappings[j].originalPos)

-----------------------------------------------------------------------------
(* The synthesized document and its position map.                          *)

\* the statement a node is emitted as: what precedes and what follows its text
OpenOf(n) ==
  IF n.type = "expr" THEN <<" ", " ", "(">>
  ELSE IF n.type = "if" THEN <<"i", "f", " ", "(">>
  ELSE <<"f", "o", "r", " ", "(">>

CloseOf(n) == IF n.type = "expr" THEN <<")", ";">> ELSE <<")", " ", "{">>

TextOf(n) == IF n.type = "expr" THEN n.value ELSE n.cond

\* the statements of the nodes ns, depth first, when the first starts at offset
\* `at`: for each its node, the offsets of its start, of the character after its
\* opening parenthesis and of its end, and its text; `next` is the offset after
\* the last line
RECURSIVE StatementsOf(_, _)
StatementsOf(ns, at) ==
  IF ns = <<>> THEN [list |-> <<>>, next |-> at]
  ELSE LET n == ns[1]
           text == OpenOf(n) \o TextOf(n) \o CloseOf(n)
           inner == IF n.type = "expr" THEN [list |-> <<>>, next |-> at + Len(text) + 1]
                    ELSE StatementsOf(n.children, at + Len(text) + 1)
           rest == StatementsOf(Tail(ns),
                                IF n.type = "expr" THEN inner.next ELSE inner.next + 2)
       IN  [list |-> <<[node |-> n, start |-> at, paren |-> at + Len(OpenOf(n)),
                        end |-> at + Len(text), text |-> text]>>
                     \o inner.list \o rest.list,
            next |-> rest.next]

\* the statements of the tree the template pass parsed
Statements == StatementsOf(mapIn.blks, Len(mapIn.script) + 1).list

\* the lines of the statements of ns, a closing brace after the children of a block
RECURSIVE StatementLines(_)
StatementLines(ns) ==
  IF ns = <<>> THEN <<>>
  ELSE LET n == ns[1]
       IN  <<OpenOf(n) \o TextOf(n) \o CloseOf(n)>>
           \o (IF n.type = "expr" THEN <<>> ELSE StatementLines(n.children) \o <<<<"}">>>>)
           \o StatementLines(Tail(ns))

\* C11: the virtual ranges of the entries are pairwise disjoint, there is one
\* entry per node, and each range lies inside the statement of its node, which the
\* virtual document holds at that place.
C11_RangesDisjointInOwnStatement ==
  mapIn.stage = "generated" =>
    /\ Len(mapIn.mappings) = Len(Statements)
    /\ \A j \in 1..Len(mapIn.mappings) :
         /\ Slice(mapIn.tempScript, Statements[j].start, Statements[j].end)
              = Statements[j].text
         /\ Statements[j].start <= mapIn.mappings[j].tsPos[1]
         /\ mapIn.mappings[j].tsPos[1] <= mapIn.mappings[j].tsPos[2]
         /\ mapIn.mappings[j].tsPos[2] <= Statements[j].end
         /\ \A i \in 1..(j - 1) :
              mapIn.mappings[i].tsPos[2] <= mapIn.mappings[j].tsPos[1]

\* a tree with a block and a nested node was synthesized
C11_NestedSynthesized ==
  /\ mapIn.stage = "generated"
  /\ Len(mapIn.mappings) >= 3
  /\ \E j \in 1..Len(Statements) :
       Statements[j].node.type # "expr" /\ Statements[j].node.children # <<>>

\* C12: the virtual range of every entry starts at the character after the
\* opening parenthesis of its node's statement and has the length of the
\* expression text.
C12_RangeIsEmittedExpression ==
  mapIn.stage = "generated" =>
    \A j \in 1..Len(mapIn.mappings) :
      /\ j <= Len(Statements)
      /\ mapIn.mappings[j].tsPos[1] = Statements[j].paren
      /\ mapIn.mappings[j].tsPos[2] - mapIn.mappings[j].tsPos[1]
           = Len(TextOf(Statements[j].node))

\* C13: the virtual document is the durable script, a line terminator, and the
\* statements of the tree, depth first, one per line, each block closed by a brace
\* after its children.
C13_DocumentIsScriptThenStatements ==
  mapIn.stage = "generated" =>
    mapIn.tempScript
      = mapIn.script \o <<"\n">> \o JoinLines(StatementLines(mapIn.blks)) \o <<"\n">>

\* a tree with a block that has a child was synthesized after a non-empty script
C13_BlockSynthesized ==
  /\ mapIn.stage = "generated"
  /\ mapIn.script # <<>>
  /\ \E k \in 1..Len(mapIn.blks) :
       mapIn.blks[k].type # "expr" /\ mapIn.blks[k].children # <<>>

\* the markup region holds an interpolation or a bound attribute
HasDirective ==
  \/ IndexOf(mapIn.html, <<"$", "{">>) # -1
  \/ \E i \in 1..Len(mapIn.html) : mapIn.html[i] \in {":", "@"}

\* C14: for a markup region without directives the virtual document is the script
\* followed by line terminators only, and the position map is empty.
C14_NoDirectiveNoStatement ==
  (mapIn.stage = "generated" /\ ~HasDirective) =>
    /\ mapIn.mappings = <<>>
    /\ mapIn.tempScript = mapIn.script \o <<"\n", "\n">>

\* a non-empty markup region without directives was synthesized
C14_PlainSynthesized ==
  /\ mapIn.stage = "generated"
  /\ ~HasDirective
  /\ mapIn.html # <<>>
  /\ mapIn.script # <<>>

-----------------------------------------------------------------------------
(* The tree returned by the directive parser.                              *)

\* the elements of the markup region
Elements == parseHTMLDocument(mapIn.markup)

\* the span of a node: of a block the element that carries it, of an expression
\* its text
SpanOf(n) ==
  IF n.type = "expr" THEN <<n.startOffset, n.startOffset + Len(n.value)>>
  ELSE LET e == CHOOSE k \in 1..Len(Elements) : Elements[k].start = n.startOffset
       IN  <<n.startOffset, Elements[e].end>>

\* every node of ns lies in [lo, hi], no two nodes of ns overlap, and the same
\* holds for the children of every block within the block's span
RECURSIVE SpansNested(_, _, _)
SpansNested(ns, lo, hi) ==
  \A k \in 1..Len(ns) :
    /\ lo <= SpanOf(ns[k])[1]
    /\ SpanOf(ns[k])[2] <= hi
    /\ \A i \in 1..(k - 1) :
         \/ SpanOf(ns[i])[2] <= SpanOf(ns[k])[1]
         \/ SpanOf(ns[k])[2] <= SpanOf(ns[i])[1]
    /\ ns[k].type # "expr" =>
         SpansNested(ns[k].children, SpanOf(ns[k])[1], SpanOf(ns[k])[2])

\* C15: in the parsed tree every node's span lies in its parent's span and no two
\* siblings overlap.
C15_SpansNestedSiblingsDisjoint ==
  mapIn.stage = "generated" => SpansNested(mapIn.blks, 0, Len(mapIn.html))

RECURSIVE SiblingsSorted(_)
SiblingsSorted(ns) ==
  /\ \A k \in 1..(Len(ns) - 1) : ns[k].startOffset <= ns[k + 1].startOffset
  /\ \A k \in 1..Len(ns) : ns[k].type # "expr" => SiblingsSorted(ns[k].children)

\* C16: every sibling list of the parsed tree, at the top level and under every
\* block, is in ascending order of start offset.
C16_SiblingsSortedByStart ==
  mapIn.stage = "generated" => SiblingsSorted(mapIn.blks)

\* a tree whose top level and one of whose blocks hold two nodes or more, an
\* expression among the block's children
C16_SeveralSiblings ==
  /\ mapIn.stage = "generated"
  /\ Len(mapIn.blks) >= 2
  /\ \E k \in 1..Len(mapIn.blks) :
       /\ mapIn.blks[k].type # "expr"
       /\ Len(mapIn.blks[k].children) >= 2
       /\ \E c \in 1..Len(mapIn.blks[k].children) :
            mapIn.blks[k].children[c].type = "expr"

\* the nodes of ns and below, each with the blocks above it (outermost first) as
\* <<type, startOffset>>
RECURSIVE NodesUnder(_, _)
NodesUnder(ns, above) ==
  IF ns = <<>> THEN <<>>
  ELSE LET n == ns[1]
       IN  <<[node |-> n, above |-> above]>>
           \o (IF n.type = "expr" THEN <<>>
               ELSE NodesUnder(n.children, Append(above, <<n.type, n.startOffset>>)))
           \o NodesUnder(Tail(ns), above)

TreeNodes == NodesUnder(mapIn.blks, <<>>)

\* the elements that carry both the loop and the conditional directive
BothElements ==
  {k \in 1..Len(Elements) :
     AttrRaw(Elements[k], ForAttr) # <<>> /\ AttrRaw(Elements[k], IfAttr) # <<>>}

\* C17: for an element with both directives, the tree has exactly one conditional
\* node of that element, its parent is the loop node of that element, its
\* statement follows the loop's header, and every expression inside the element
\* is below the loop node.
C17_ConditionalUnderLoop ==
  mapIn.stage = "generated" =>
    \A e \in BothElements :
      LET s == Elements[e].start
          ifs == {k \in 1..Len(TreeNodes) :
                    TreeNodes[k].node.type = "if" /\ TreeNodes[k].node.startOffset = s}
      IN  /\ Cardinality(ifs) = 1
          /\ \A k \in ifs :
               /\ TreeNodes[k].above # <<>>
               /\ TreeNodes[k].above[Len(TreeNodes[k].above)] = <<"for", s>>
               /\ k > 1
               /\ Statements[k - 1].node.type = "for"
               /\ Statements[k - 1].node.startOffset = s
               /\ Statements[k].node.type = "if"
               /\ Statements[k].start = Statements[k - 1].end + 1
          /\ \A k \in 1..Len(TreeNodes) :
               (/\ TreeNodes[k].node.type = "expr"
                /\ s <= TreeNodes[k].node.startOffset
                /\ TreeNodes[k].node.startOffset < Elements[e].end)
                 => \E a \in 1..Len(TreeNodes[k].above) :
                      TreeNodes[k].above[a] = <<"for", s>>

\* an element with both directives and an expression inside it, itself inside
\* another loop, was parsed
C17_BothInsideLoop ==
  /\ mapIn.stage = "generated"
  /\ \E e \in BothElements :
       /\ Elements[e].start > 0
       /\ \E k \in 1..Len(TreeNodes) :
            /\ TreeNodes[k].node.type = "expr"
            /\ Elements[e].start <= TreeNodes[k].node.startOffset
            /\ TreeNodes[k].node.startOffset < Elements[e].end

\* the clause an element's loop directive is to be emitted with
ClauseOf(e) ==
  LET raw == AttrRaw(Elements[e], ForAttr)
      inner == Trim(Slice(raw, 1, Len(raw) - 1))
      declared ==
        \/ SubSeq(inner, 1, Min({4, Len(inner)})) \in {<<"l", "e", "t", " ">>,
                                                       <<"v", "a", "r", " ">>}
        \/ SubSeq(inner, 1, Min({6, Len(inner)})) = <<"c", "o", "n", "s", "t", " ">>
  IN  IF declared THEN inner ELSE <<"l", "e", "t", " ">> \o inner

\* C18: every loop directive has one statement: `for (`, the clause as written
\* when it starts with let, const or var, else the clause with `let ` in front,
\* and `) {`; the virtual document holds it.
C18_LoopClauseDeclares ==
  mapIn.stage = "generated" =>
    \A e \in {k \in 1..Len(Elements) : AttrRaw(Elements[k], ForAttr) # <<>>} :
      \E j \in 1..Len(Statements) :
        /\ Statements[j].node.type = "for"
        /\ Statements[j].node.startOffset = Elements[e].start
        /\ Slice(mapIn.tempScript, Statements[j].start, Statements[j].end)
             = <<"f", "o", "r", " ", "(">> \o ClauseOf(e) \o <<")", " ", "{">>

\* a clause with a keyword and a clause without one were emitted
C18_BothForms ==
  /\ mapIn.stage = "generated"
  /\ \E e1, e2 \in 1..Len(Elements) :
       /\ AttrRaw(Elements[e1], ForAttr) # <<>>
       /\ AttrRaw(Elements[e2], ForAttr) # <<>>
       /\ ClauseOf(e1) = Trim(Slice(AttrRaw(Elements[e1], ForAttr), 1,
                                    Len(AttrRaw(Elements[e1], ForAttr)) - 1))
       /\ ClauseOf(e2) # Trim(Slice(AttrRaw(Elements[e2], ForAttr), 1,
                                    Len(AttrRaw(Elements[e2], ForAttr)) - 1))

-----------------------------------------------------------------------------
(* The offset a point query asks the engine at.                            *)

\* the position map of the probe the running point query installed
ProbeMappings ==
  generateVirtualTsFromBlks(
    parseTemplateBlocks(HtmlOf(documents[run.uri]), NodesOf(documents[run.uri])),
    run.orig).mappings

\* the entries of the directive whose first character the cursor is on
EntriesAtCursor ==
  {j \in 1..Len(ProbeMappings) : ProbeMappings[j].originalPos = run.cursor.pos}

\* C19: with the cursor on the first character of a directive's expression, the
\* engine is asked at the start of the virtual range of that directive's entry
\* (the cursor's offset inside the expression being 0).
C19_AskedAtMappedOffset ==
  (pc = "installed" /\ run.kind \in QueryKinds) =>
    \A j \in EntriesAtCursor : run.tsOffset = ProbeMappings[j].tsPos[1]

\* C20: a request whose cursor in the markup region is on no directive of the
\* position map (plain markup, or an interpolation the parser skipped) installs no
\* probe.
C20_NoProbeOutsideDirectives ==
  (pc = "installed" /\ run.kind \in QueryKinds) => EntriesAtCursor # {}

-----------------------------------------------------------------------------
(* Malformed clauses and interpolations in comments.                       *)

\* a conditional node with an empty clause, or a loop node whose clause is not
\* pattern-of-iterable
Malformed(n) ==
  \/ n.type = "if" /\ n.cond = <<>>
  \/ n.type = "for" /\ IndexOf(n.cond, <<" ", "o", "f", " ">>) = -1

\* C21: no statement of the virtual document belongs to a loop or conditional
\* directive whose clause is malformed.
C21_MalformedSkipped ==
  mapIn.stage = "generated" =>
    \A k \in 1..Len(Statements) : ~ Malformed(Statements[k].node)

\* is offset off of the markup inside a comment <!-- ... -->
InsideComment(off) ==
  \E i \in 0..off :
    /\ OccursAt(mapIn.html, <<"<", "!", "-", "-">>, i)
    /\ \E j \in (i + 4)..Len(mapIn.html) : OccursAt(mapIn.html, <<"-", "-", ">">>, j)
    /\ \A j \in (i + 4)..(off - 3) : ~ OccursAt(mapIn.html, <<"-", "-", ">">>, j)

\* the interpolations of the markup, each with the offset of its ${, the offset
\* of the first non-blank character of its expression, and its trimmed expression
Interpolations ==
  LET ms == InterpMatches(mapIn.html, 0, 1)
  IN  [k \in 1..Len(ms) |->
         [index |-> ms[k].index,
          at |-> ms[k].index + 2 + IndexOf(ms[k].inner, Trim(ms[k].inner)),
          value |-> Trim(ms[k].inner)]]

\* the expression nodes of the tree that interpolation m produced
NodesOfInterpolation(m) ==
  {t \in 1..Len(TreeNodes) :
     /\ TreeNodes[t].node.type = "expr"
     /\ TreeNodes[t].node.startOffset = m.at
     /\ TreeNodes[t].node.value = m.value}

\* the position-map entries that interpolation m produced
EntriesOfInterpolation(m) ==
  {j \in 1..Len(mapIn.mappings) :
     /\ mapIn.mappings[j].originalPos = positionAt(mapIn.html, m.at)
     /\ mapIn.mappings[j].value = m.value}

\* C22: an interpolation that starts inside a comment has no node and no
\* position-map entry; every other interpolation has exactly one expression node.
C22_CommentedInterpolationSkipped ==
  mapIn.stage = "generated" =>
    \A k \in 1..Len(Interpolations) :
      IF InsideComment(Interpolations[k].index)
      THEN /\ NodesOfInterpolation(Interpolations[k]) = {}
           /\ EntriesOfInterpolation(Interpolations[k]) = {}
      ELSE Cardinality(NodesOfInterpolation(Interpolations[k])) = 1

\* a markup with an interpolation inside a comment and one outside was parsed
C22_BothKindsParsed ==
  /\ mapIn.stage = "generated"
  /\ \E k \in 1..Len(Interpolations) : InsideComment(Interpolations[k].index)
  /\ \E k \in 1..Len(Interpolations) :
       /\ ~ InsideComment(Interpolations[k].index)
       /\ Cardinality(EntriesOfInterpolation(Interpolations[k])) = 1

-----------------------------------------------------------------------------
(* The definition request on a binding of a destructuring loop clause: the  *)
(* probe, the engine's answer and its mapping, as a pipeline over mapIn.   *)

LetBracket == <<"l", "e", "t", " ", "[">>

\* onDefinition, one definition of the virtual file: the location pushed for it,
\* or Absent when it lies in the input declarations
MapDefinition(def, tempScript, blockMappings, hStart, htmlIndent, scriptStartLine) ==
  LET hits == {j \in 1..Len(blockMappings) :
                 /\ def.start >= blockMappings[j].tsPos[1]
                 /\ def.start < blockMappings[j].tsPos[2]}
      defStart == positionAt(tempScript, def.start)
      defEnd == positionAt(tempScript, def.start + def.length)
  IN  IF def.start < totalAdditionalPartChars THEN Absent
      ELSE IF hits = {}
      THEN <<defStart[1] - totalAdditionalPartLines + scriptStartLine,
             defStart[2] + INDENT_SIZE,
             defEnd[1] - totalAdditionalPartLines + scriptStartLine,
             defEnd[2] + INDENT_SIZE>>
      ELSE LET mapped == blockMappings[Min(hits)]
               varName == def.name
               offsetInCond == IndexOf(mapped.value, varName)
               origLine == mapped.originalPos[1]
               origChar == mapped.originalPos[2]
                           + (IF offsetInCond >= 0 THEN offsetInCond ELSE 0)
           IN  IF StartsWith(mapped.value, LetBracket)
               THEN <<hStart + origLine, htmlIndent + origChar,
                      hStart + origLine, htmlIndent + origChar + Len(varName)>>
               ELSE <<hStart + mapped.originalPos[1],
                      htmlIndent + mapped.originalPos[2],
                      hStart + mapped.originalPos[1],
                      htmlIndent + mapped.originalPos[2] + Len(mapped.value)>>

\* the identifiers a pattern binds
Names == {<<"a">>, <<"e">>, <<"t">>}

\* the declaration keywords a clause can be written with, <<>> for none
Keywords == {<<>>, LetKw, ConstKw, VarKw}

\* kw [a, b] of xs
DestructuringClause(kw, a, b) ==
  (IF kw = <<>> THEN <<>> ELSE kw \o <<" ">>)
  \o <<"[">> \o a \o <<",", " ">> \o b \o <<"]", " ", "o", "f", " ", "x", "s">>

\* <li :for="kw [a, b] of xs">${a}</li>
MarkupDestructuring(kw, a, b) ==
  <<E(<<"l", "i">>, <<A(ForAttr, DestructuringClause(kw, a, b))>>,
      <<T(<<"$", "{">> \o a \o <<"}">>)>>)>>

DefInputs ==
  {[stage |-> "input", kw |-> kw, a |-> a, b |-> b,
    markup |-> MarkupDestructuring(kw, a, b),
    html |-> RenderItems(MarkupDestructuring(kw, a, b)),
    script |-> sc, hStart |-> sh[1], htmlIndent |-> sh[2],
    tempScript |-> <<>>, mappings |-> <<>>,
    def |-> [binding |-> "none", start |-> 0, length |-> 0, name |-> <<>>],
    location |-> Absent] :
     kw \in Keywords, a \in Names, b \in Names, sc \in Scripts, sh \in Shifts}

InitDef ==
  /\ documents = EmptyMap
  /\ scriptContents = EmptyMap
  /\ scriptVersions = EmptyMap
  /\ activeVirtualFile = NoPath
  /\ totalAdditionalPartChars = 0
  /\ totalAdditionalPartLines = 0
  /\ pc = "idle"
  /\ run = NewRun("none", NoUri, NoPath, NoCursor)
  /\ mapIn \in {i \in DefInputs : i.a # i.b}

\* lines 3087-3107: the probe of the request and its position map
DefPrepare ==
  /\ mapIn.stage = "input"
  /\ LET gen == generateVirtualTsFromBlks(
                  parseTemplateBlocks(mapIn.html, parseHTMLDocument(mapIn.markup)),
                  mapIn.script)
     IN  mapIn' = [mapIn EXCEPT !.stage = "prepared",
                                !.tempScript = gen.tempScript,
                                !.mappings = gen.mappings]
  /\ MapFrame

\* lines 3112-3115: the engine resolves to the declaration of binding a or b in
\* the header of the loop statement of the probe
DefEngine ==
  /\ mapIn.stage = "prepared"
  /\ \E binding \in {"a", "b"} :
       LET header == mapIn.mappings[1]
           first == header.tsPos[1] + IndexOf(header.value, <<"[">>) + 1
           start == IF binding = "a" THEN first ELSE first + Len(mapIn.a) + 2
           name == IF binding = "a" THEN mapIn.a ELSE mapIn.b
       IN  mapIn' = [mapIn EXCEPT !.stage = "resolved",
                                  !.def = [binding |-> binding, start |-> start,
                                           length |-> Len(name), name |-> name]]
  /\ MapFrame

\* lines 3120-3206: the location returned for the definition
DefLocate ==
  /\ mapIn.stage = "resolved"
  /\ mapIn' = [mapIn EXCEPT
                 !.stage = "located",
                 !.location = MapDefinition(mapIn.def, mapIn.tempScript, mapIn.mappings,
                                            mapIn.hStart, mapIn.htmlIndent, 1)]
  /\ MapFrame

NextDef == DefPrepare \/ DefEngine \/ DefLocate

SpecDef == InitDef /\ [][NextDef]_vars

\* the offset in the markup of the identifier of the resolved binding inside
\* the loop attribute
BindingOffset ==
  LET bracket == IndexOf(mapIn.html, <<"[">>)
  IN  IF mapIn.def.binding = "a" THEN bracket + 1
      ELSE bracket + 1 + Len(mapIn.a) + 2

\* C23: the location of a definition that resolves to a binding of the pattern is
\* the span of that identifier inside the loop attribute, in the coordinates of
\* the file.
C23_BindingMappedToOwnSpan ==
  mapIn.stage = "located" =>
    LET pos == positionAt(mapIn.html, BindingOffset)
    IN  mapIn.location = <<mapIn.hStart + pos[1], mapIn.htmlIndent + pos[2],
                           mapIn.hStart + pos[1],
                           mapIn.htmlIndent + pos[2] + Len(mapIn.def.name)>>

-----------------------------------------------------------------------------
(* A change event on a file: the extraction of its regions, then the        *)
(* handler of the change event on what was extracted.                       *)

ExtractInputs ==
  {[stage |-> "file", file |-> f,
    script |-> [script |-> <<>>, startLine |-> -1, endLine |-> -1],
    html |-> [html |-> <<>>, startLine |-> -1, endLine |-> -1, indent |-> -1],
    style |-> [css |-> <<>>, startLine |-> -1, endLine |-> -1, indent |-> -1]] :
     f \in Files}

InitExtract ==
  /\ documents = EmptyMap
  /\ scriptContents = EmptyMap
  /\ scriptVersions = EmptyMap
  /\ activeVirtualFile = NoPath
  /\ totalAdditionalPartChars = 0
  /\ totalAdditionalPartLines = 0
  /\ pc = "idle"
  /\ run = NewRun("none", NoUri, NoPath, NoCursor)
  /\ mapIn \in ExtractInputs

\* extractScript, extractHTML and extractStyle of the file
Extract ==
  /\ mapIn.stage = "file"
  /\ mapIn' = [mapIn EXCEPT !.stage = "extracted",
                            !.script = extractScript(mapIn.file.text),
                            !.html = extractHTML(mapIn.file.text),
                            !.style = extractStyle(mapIn.file.text)]
  /\ MapFrame

NextExtract ==
  \/ Extract
  \/ \E uri \in Uris :
       /\ mapIn.stage = "extracted"
       /\ ChangeContent(uri, TextOfFile(mapIn.file))
  \/ ChangeScriptPass
  \/ ChangeTemplatePass
  \/ Restore
  \/ ChangePublish

SpecExtract == InitExtract /\ [][NextExtract]_vars

-----------------------------------------------------------------------------
(* The regions extracted from a file, against the regions the file was      *)
(* written with.                                                           *)

\* the regions of the file that a well-formed label opens
Present ==
  {r \in Regions :
     /\ \E k \in 1..Len(mapIn.file.order) : mapIn.file.order[k] = r
     /\ mapIn.file.malformed # r}

\* the text extracted for a region
ExtractedOf(region) ==
  IF region = "script" THEN mapIn.script.script
  ELSE IF region = "html" THEN mapIn.html.html ELSE mapIn.style.css

\* the start line reported for a region
StartLineOf(region) ==
  IF region = "script" THEN mapIn.script.startLine
  ELSE IF region = "html" THEN mapIn.html.startLine ELSE mapIn.style.startLine

\* the label line and the content lines of a region as the file was written
WrittenLines(region) ==
  {LabelLine(region, FALSE)}
  \cup {Trim(ContentLines(region, mapIn.file.markup)[k]) :
          k \in 1..Len(ContentLines(region, mapIn.file.markup))}

\* C24: no line of the text extracted for a region is the label line or a
\* content line of another region of the file.
C24_RegionEndsAtNextLabel ==
  (mapIn.stage = "extracted" /\ mapIn.file.malformed = "none") =>
    \A r \in Present, o \in Present :
      r # o =>
        \A k \in 1..Len(SplitLines(ExtractedOf(r))) :
          Trim(SplitLines(ExtractedOf(r))[k]) \notin WrittenLines(o)

\* C25: the lines extracted for a region are its content lines without the
\* minimum indentation they were written with, and that width is the indentation
\* reported for the markup and the style region.
C25_MinimumIndentStripped ==
  (mapIn.stage = "extracted" /\ mapIn.file.malformed = "none") =>
    /\ \A r \in Present :
         LET content == ContentLines(r, mapIn.file.markup)
             lines == SplitLines(ExtractedOf(r))
         IN  /\ Len(lines) >= Len(content)
             /\ SubSeq(lines, 1, Len(content)) = content
    /\ "html" \in Present => mapIn.html.indent = mapIn.file.ind
    /\ "style" \in Present => mapIn.style.indent = mapIn.file.ind

\* the number of lines the first n regions of the file take
RECURSIVE LinesBefore(_)
LinesBefore(n) ==
  IF n = 0 THEN 0
  ELSE LinesBefore(n - 1)
       + Len(RegionLines(mapIn.file.order[n], mapIn.file.ind, mapIn.file.markup, FALSE))

\* C26: the start line reported for a region is the 1-based number of the line of
\* the label that opens it.
C26_StartLineIsLabelLine ==
  (mapIn.stage = "extracted" /\ mapIn.file.malformed = "none") =>
    \A k \in 1..Len(mapIn.file.order) :
      StartLineOf(mapIn.file.order[k]) = LinesBefore(k - 1) + 1

-----------------------------------------------------------------------------
(* The recorded position of a node.                                        *)

\* the offset in the markup of the first character of the value of the k-th
\* attribute of element e, after its opening quote
OwnValueOffset(e, k) ==
  LET attrs == Elements[e].attrs
      after == Len(AttrText(SubSeq(attrs, k + 1, Len(attrs))))
  IN  Elements[e].startTagEnd - 1 - after - Len(attrs[k].raw) + 1

\* C28: the position recorded for the node of a loop or conditional clause is
\* that of the first character of the attribute's own value, for a bound
\* attribute that of the first non-blank character of its own value, and for an
\* interpolation that of the first non-blank character after ${.
C28_PositionIsOwnExpression ==
  mapIn.stage = "generated" =>
    /\ \A e \in 1..Len(Elements) :
         \A k \in 1..Len(Elements[e].attrs) :
           LET name == Elements[e].attrs[k].name
               raw == Elements[e].attrs[k].raw
               inner == Slice(raw, 1, Len(raw) - 1)
               own == OwnValueOffset(e, k)
           IN  IF name \in {ForAttr, IfAttr}
               THEN \E t \in 1..Len(TreeNodes) :
                      /\ TreeNodes[t].node.type = (IF name = ForAttr THEN "for" ELSE "if")
                      /\ TreeNodes[t].node.startOffset = Elements[e].start
                      /\ TreeNodes[t].node.originalPos = positionAt(mapIn.html, own)
               ELSE IsBinding(name) =>
                      \E t \in 1..Len(TreeNodes) :
                        /\ TreeNodes[t].node.type = "expr"
                        /\ TreeNodes[t].node.value = Trim(inner)
                        /\ TreeNodes[t].node.originalPos
                             = positionAt(mapIn.html, own + IndexOf(inner, Trim(inner)))
    /\ \A k \in 1..Len(Interpolations) :
         ~ InsideComment(Interpolations[k].index) =>
           \E t \in NodesOfInterpolation(Interpolations[k]) :
             TreeNodes[t].node.originalPos = positionAt(mapIn.html, Interpolations[k].at)

-----------------------------------------------------------------------------
(* The order of handler runs.                                              *)

\* C29: a change event is handled without another handler in between: every step
\* of its run keeps the run's document and path and the open documents, the run
\* starts with the event's text stored for its URI, and when it ends without an
\* engine call having thrown it has published, once, diagnostics for that URI.
C29_ChangeIsPublished ==
  [][/\ (pc = "idle" /\ pc' = "durable") =>
          /\ run'.kind = "change"
          /\ Has(documents', run'.uri)
          /\ Get(scriptContents', run'.path) = UpdatedScript(documents'[run'.uri])
     /\ (run.kind = "change" /\ pc # "idle") =>
          /\ run'.kind = "change"
          /\ run'.uri = run.uri
          /\ run'.path = run.path
          /\ documents' = documents
          /\ (pc' = "idle" /\ ~ run'.engineThrew) => run'.result = "published"
          /\ pc' # "idle" => run'.result = "pending"]_vars

\* a change event that followed an earlier handler run on the same path was
\* published with a diagnostic
C29_PublishedAgain ==
  /\ pc = "idle"
  /\ run.kind = "change"
  /\ run.result = "published"
  /\ run.diagnostics # <<>>
  /\ run.origVer >= 3

\* the probes a handler can install: the statements of the markup of one text
\* after the durable script of a text
Probes ==
  {generateVirtualTsFromBlks(parseTemplateBlocks(HtmlOf(t), NodesOf(t)),
                             UpdatedScript(u)).tempScript :
     t \in {x \in Texts : HtmlOf(x) # <<>>}, u \in Texts}

\* C30: the content a point query reads as the original script when it installs
\* its probe is never a probe.
C30_NoProbeReadAsOriginal ==
  (pc = "installed" /\ run.kind \in QueryKinds) => run.orig \notin Probes

-----------------------------------------------------------------------------
(* provideLunasTemplateHover: from the cursor to the range of the hover, as *)
(* a pipeline over mapIn.                                                  *)

\* <p>${ab}</p>
MarkupHover == <<E(<<"p">>, <<>>, <<T(<<"$", "{", "a", "b", "}">>)>>)>>

\* the documents a hover is asked on: the markup region alone or after a script
\* region
HoverFiles ==
  {[order |-> o, ind |-> i, markup |-> m, malformed |-> "none",
    text |-> JoinLines(FileLines(o, i, m, "none"))] :
     o \in {<<"html">>, <<"script", "html">>}, i \in Indents,
     m \in {MarkupHover, MarkupIf}}

NoSpan == [start |-> -1, length |-> 0]

HoverInputs ==
  UNION {{[stage |-> "input", file |-> f, offset |-> off,
    html |-> extractHTML(f.text).html,
    hStart |-> extractHTML(f.text).startLine,
    htmlIndent |-> extractHTML(f.text).indent,
    templateContext |-> NoCtx, tempScript |-> <<>>, mappings |-> <<>>,
    hoverTsOffset |-> 0, textSpan |-> NoSpan, range |-> Absent] :
     off \in 0..Len(RenderItems(f.markup))} : f \in HoverFiles}

InitHover ==
  /\ documents = EmptyMap
  /\ scriptContents = EmptyMap
  /\ scriptVersions = EmptyMap
  /\ activeVirtualFile = NoPath
  /\ totalAdditionalPartChars = 0
  /\ totalAdditionalPartLines = 0
  /\ pc = "idle"
  /\ run = NewRun("none", NoUri, NoPath, NoCursor)
  /\ mapIn \in HoverInputs

\* lines 2708-2754: the probe for the expression at the cursor and the offset the
\* engine is asked at
HoverAsk(templateContext, prep) ==
  mapIn' = [mapIn EXCEPT
              !.stage = "asked",
              !.templateContext = templateContext,
              !.tempScript = prep.tempScript,
              !.mappings = prep.blockMappings,
              !.hoverTsOffset = prep.expressionOffsetInTempScript
                                + templateContext.offsetInExpression]

HoverPrepare(templateContext, originalScriptContent, nodes) ==
  IF templateContext = NoCtx
  THEN mapIn' = [mapIn EXCEPT !.stage = "null"]
  ELSE HoverAsk(templateContext,
                prepareTemporaryScriptForExpression(
                  originalScriptContent, templateContext.expression, mapIn.html, nodes))

\* lines 2640-2754: the template context at the cursor, then the probe; no hover
\* outside every template expression
HoverProbe ==
  /\ mapIn.stage = "input"
  /\ HoverPrepare(getLunasTemplateContext(mapIn.html, parseHTMLDocument(mapIn.file.markup),
                                          positionAt(mapIn.html, mapIn.offset)),
                  UpdatedScript(TextOfFile(mapIn.file)),
                  parseHTMLDocument(mapIn.file.markup))
  /\ MapFrame

\* the word of text that holds or touches offset off: its start and length, or
\* NoSpan when no word character is next to off
WordSpanAt(text, off) ==
  LET isWordAt(k) == k >= 0 /\ k < Len(text) /\ IsWord(text[k + 1])
      starts == {a \in 0..off : \A k1 \in a..(off - 1) : isWordAt(k1)}
      ends == {b \in off..Len(text) : \A k2 \in off..(b - 1) : isWordAt(k2)}
  IN  IF Max(ends) = Min(starts) THEN NoSpan
      ELSE [start |-> Min(starts), length |-> Max(ends) - Min(starts)]

\* lines 2774-2777: getQuickInfoAtPosition returns nothing, or the quick info of
\* the identifier at the offset with that identifier's span
HoverEngine ==
  /\ mapIn.stage = "asked"
  /\ \E textSpan \in {NoSpan, WordSpanAt(mapIn.tempScript, mapIn.hoverTsOffset)} :
       mapIn' = [mapIn EXCEPT !.stage = "answered", !.textSpan = textSpan]
  /\ MapFrame

\* lines 2795-2811: hoverRange as [start line, start character, end line, end
\* character] in the document
hoverRange(doc, templateContext, textSpan, hStart, htmlIndent) ==
  LET exprStartInFullDoc ==
        <<templateContext.expressionStartInHtmlBlock[1] + hStart,
          templateContext.expressionStartInHtmlBlock[2] + htmlIndent>>
      from == offsetAt(doc, exprStartInFullDoc) + templateContext.offsetInExpression
  IN  positionAt(doc, from) \o positionAt(doc, from + textSpan.length)

\* lines 2787-2816: the hover returned
HoverResult ==
  /\ mapIn.stage = "answered"
  /\ mapIn' = [mapIn EXCEPT
                 !.stage = "returned",
                 !.range = IF mapIn.textSpan = NoSpan THEN Absent
                           ELSE hoverRange(mapIn.file.text, mapIn.templateContext,
                                           mapIn.textSpan, mapIn.hStart, mapIn.htmlIndent)]
  /\ MapFrame

NextHover == HoverProbe \/ HoverEngine \/ HoverResult

SpecHover == InitHover /\ [][NextHover]_vars

\* the entries whose virtual range holds the start of the engine's span
SpanOwners ==
  {j \in 1..Len(mapIn.mappings) :
     /\ mapIn.textSpan.start >= mapIn.mappings[j].tsPos[1]
     /\ mapIn.textSpan.start < mapIn.mappings[j].tsPos[2]}

\* C31: the range of a hover whose span starts in the virtual range of an entry
\* starts at the entry's original position advanced by (span start - entry
\* virtual start), in the coordinates of the document, and has the span's length.
C31_HoverRangeIsMappedSpan ==
  (mapIn.stage = "returned" /\ mapIn.textSpan # NoSpan) =>
    \A j \in SpanOwners :
      LET m == mapIn.mappings[j]
          line == mapIn.hStart + m.originalPos[1]
          char == mapIn.htmlIndent + m.originalPos[2] + (mapIn.textSpan.start - m.tsPos[1])
      IN  mapIn.range = <<line, char, line, char + mapIn.textSpan.length>>

-----------------------------------------------------------------------------
(* What the engine is served: tsHost.getScriptVersion and getScriptSnapshot *)
(* of the virtual file during an engine call.  mapIn holds the triples     *)
(* <<path, version, content>> served so far.                               *)

InitServe ==
  /\ documents = EmptyMap
  /\ scriptContents = EmptyMap
  /\ scriptVersions = EmptyMap
  /\ activeVirtualFile = NoPath
  /\ totalAdditionalPartChars = 0
  /\ totalAdditionalPartLines = 0
  /\ pc = "idle"
  /\ run = NewRun("none", NoUri, NoPath, NoCursor)
  /\ mapIn = {}

\* lines 1779-1790: an engine call of the running handler asks the host for the
\* version and the snapshot of the handler's virtual file
Unread ==
  /\ pc \in {"durable", "installed"}
  /\ Has(scriptContents, run.path)
  /\ <<run.path, Ver(run.path), scriptContents[run.path]>> \notin mapIn

\* the number of engine reads followed in one behaviour
MaxServed == 3

EngineReads ==
  /\ Unread
  /\ Cardinality(mapIn) < MaxServed
  /\ mapIn' = mapIn \cup {<<run.path, Ver(run.path), scriptContents[run.path]>>}
  /\ MapFrame

\* the engine call is part of the handler: it reads before the handler goes on
NextServe ==
  \/ EngineReads
  \/ (~Unread /\ Next)

SpecServe == InitServe /\ [][NextServe]_vars

\* C32: no two contents were served for one path under one version.
C32_VersionDeterminesContent ==
  \A s1 \in mapIn, s2 \in mapIn :
    (s1[1] = s2[1] /\ s1[2] = s2[2]) => s1[3] = s2[3]

-----------------------------------------------------------------------------
(* The effect of one point query on the store.                             *)

\* the cursor of the running query is in the markup region and
\* getLunasTemplateContext finds no template expression at it
OutsideExpressions ==
  /\ run.kind \in QueryKinds
  /\ run.cursor # NoCursor
  /\ run.cursor.region = "html"
  /\ getLunasTemplateContext(HtmlOf(documents[run.uri]), NodesOf(documents[run.uri]),
                             run.cursor.pos) = NoCtx

\* C33: a point query starts without touching the store; the content and version
\* it records at the probe install are the ones stored before the request; when
\* it ends after a probe without an exception leaving the handler, the content is
\* the recorded one and the version is the recorded one plus 2; and a query
\* whose cursor is outside every template expression, on a document whose
\* virtual file is stored, ends leaving content and version as they were.
C33_QueryAddsTwoOrNothing ==
  [][/\ (pc = "idle" /\ pc' = "resolved")
          => UNCHANGED <<scriptContents, scriptVersions>>
     /\ (pc = "resolved" /\ pc' = "installed")
          => /\ run'.orig = Get(scriptContents, run.path)
             /\ run'.origVer = Ver(run.path)
     /\ (pc # "idle" /\ pc' = "idle" /\ run'.kind \in QueryKinds
         /\ run'.installed /\ ~run'.threw)
          => /\ Get(scriptContents', run'.path) = run'.orig
             /\ Has(scriptVersions', run'.path)
             /\ scriptVersions'[run'.path] = run'.origVer + 2
     /\ (pc = "resolved" /\ OutsideExpressions /\ Has(scriptContents, run.path))
          => /\ pc' = "idle"
             /\ UNCHANGED <<scriptContents, scriptVersions>>]_vars

\* a query has gone through probe, engine and restore
C33_QueryDone ==
  /\ pc = "idle"
  /\ run.kind \in QueryKinds
  /\ run.installed
  /\ ~run.threw
  /\ run.origVer >= 1
  /\ Ver(run.path) = run.origVer + 2
  /\ Get(scriptContents, run.path) = run.orig

-----------------------------------------------------------------------------
(* The measures of the injected declarations a request translates with.    *)

\* C34: while a point query on a document runs, totalAdditionalPartChars and
\* totalAdditionalPartLines are the length and the line count of the input
\* declarations of that document's own text.
C34_PrefixMeasuresOfOwnText ==
  (pc = "resolved" /\ run.kind \in QueryKinds /\ Has(documents, run.uri)) =>
    /\ totalAdditionalPartChars = Len(InputDeclarations(documents[run.uri].inputs))
    /\ totalAdditionalPartLines =
         CountNewlines(InputDeclarations(documents[run.uri].inputs))

-----------------------------------------------------------------------------
(* connection.onCompletionResolve, for the items of a template completion. *)
(* mapIn holds what the last resolve asked the engine.                     *)

NoResolve == [virtualPath |-> NoPath, tsOffset |-> 0, content |-> <<>>, probe |-> <<>>,
              stored |-> FALSE]

InitResolve ==
  /\ documents = EmptyMap
  /\ scriptContents = EmptyMap
  /\ scriptVersions = EmptyMap
  /\ activeVirtualFile = NoPath
  /\ totalAdditionalPartChars = 0
  /\ totalAdditionalPartLines = 0
  /\ pc = "idle"
  /\ run = NewRun("none", NoUri, NoPath, NoCursor)
  /\ mapIn = NoResolve

\* lines 2820-2870: the client sends back an item of the last template completion;
\* its data holds the virtual path and the offset the engine was asked at, and
\* getCompletionEntryDetails reads the content stored for that path now
CompletionResolve ==
  /\ pc = "idle"
  /\ run.kind = "completion"
  /\ run.result = "items"
  /\ run.installed
  /\ mapIn' = [virtualPath |-> run.path,
               tsOffset |-> run.tsOffset,
               stored |-> Has(scriptContents, run.path),
               content |-> IF Has(scriptContents, run.path)
                           THEN scriptContents[run.path] ELSE <<>>,
               probe |-> run.probe]
  /\ MapFrame

NextResolve ==
  \/ \E uri \in Uris, text \in Texts : ChangeContent(uri, text)
  \/ ChangeScriptPass
  \/ ChangeTemplatePass
  \/ Restore
  \/ ChangePublish
  \/ \E uri \in Uris :
       \E cursor \in (IF Has(documents, uri) THEN Cursors(documents[uri])
                      ELSE {NoCursor}) :
         QueryBegin("completion", uri, cursor)
  \/ QueryDispatch
  \/ QueryEngine
  \/ QueryMap
  \/ CompletionResolve

SpecResolve == InitResolve /\ [][NextResolve]_vars

\* C35: the content the engine reads when an item is resolved agrees with the
\* probe the item's offset was computed in, up to the end of the probe's
\* statement that holds that offset: the offset denotes the same position.
C35_ResolveOffsetInInstalledContent ==
  mapIn # NoResolve =>
    /\ mapIn.stored
    /\ mapIn.tsOffset <= Len(mapIn.content)
    /\ \A k \in 1..Len(mapIn.probe) :
         k <= mapIn.tsOffset + 1 =>
           (k <= Len(mapIn.content) /\ mapIn.content[k] = mapIn.probe[k])

-----------------------------------------------------------------------------
(* Expressions inside a conditional element.                               *)

\* the offset of the closing brace of the block statement j: the offset after the
\* statements of its children
BodyEnd(j) == StatementsOf(Statements[j].node.children, Statements[j].end + 1).next

\* the expression statements whose expression lies inside element e
ExpressionsInside(e) ==
  {k \in 1..Len(Statements) :
     /\ Statements[k].node.type = "expr"
     /\ Elements[e].start <= Statements[k].node.startOffset
     /\ Statements[k].node.startOffset < Elements[e].end}

\* C36: for every element whose conditional directive has a statement, every
\* expression inside the element has its statement between the `if (...) {` line
\* and the closing brace of that conditional.
C36_ExpressionInsideIfBody ==
  mapIn.stage = "generated" =>
    \A e \in 1..Len(Elements) :
      \A j \in 1..Len(Statements) :
        (Statements[j].node.type = "if" /\ Statements[j].node.startOffset = Elements[e].start)
          => \A k \in ExpressionsInside(e) :
               /\ Statements[j].end < Statements[k].start
               /\ Statements[k].end <= BodyEnd(j)
               /\ BodyEnd(j) + 1 <= Len(mapIn.tempScript)
               /\ mapIn.tempScript[BodyEnd(j) + 1] = "}"

-----------------------------------------------------------------------------
(* The script pass and the publication of one change event, for documents  *)
(* with zero to two input declarations and scripts of one or two lines.    *)

OneInput == <<[name |-> <<"n">>, type |-> <<"t">>]>>
TwoInputs == OneInput \o <<[name |-> <<"m">>, type |-> <<"u">>]>>

ScriptTexts ==
  {[inputs |-> ins, script |-> sc, startLine |-> sl] :
     ins \in {<<>>, OneInput, TwoInputs},
     sc \in {<<"c", ";">>, <<"c", ";", "\n", "d", ";">>},
     sl \in {1, 3}}

TsDiag(start, message) == [start |-> start, length |-> 1, message |-> message, code |-> 1]

\* what getSyntacticDiagnostics and getSemanticDiagnostics return for a content:
\* nothing, one diagnostic, or two (the same one twice, two messages at one
\* place, or a second one at the last character)
ScriptEngineDiagnostics(content) ==
  {<<>>}
  \cup {<<TsDiag(st, "script error")>> : st \in 0..Len(content)}
  \cup UNION {{<<TsDiag(st, "script error"), d2>> :
                 d2 \in {TsDiag(st, "script error"), TsDiag(st, "other error"),
                         TsDiag(Len(content) - 1, "script error")}} :
              st \in 0..Len(content)}

ScriptInputs ==
  UNION {{[stage |-> "input", text |-> t, content |-> UpdatedScript(t),
           tsDiags |-> ds, scriptDiags |-> <<>>, templateDiags |-> <<>>,
           published |-> <<>>] :
            ds \in ScriptEngineDiagnostics(UpdatedScript(t))} :
         t \in ScriptTexts}

InitScript ==
  /\ documents = EmptyMap
  /\ scriptContents = EmptyMap
  /\ scriptVersions = EmptyMap
  /\ activeVirtualFile = NoPath
  /\ totalAdditionalPartChars = 0
  /\ totalAdditionalPartLines = 0
  /\ pc = "idle"
  /\ run = NewRun("none", NoUri, NoPath, NoCursor)
  /\ mapIn \in ScriptInputs

\* lines 2012-2020 and 2036-2094: the measures of the document's own
\* declarations, then the script pass
ScriptPass ==
  /\ mapIn.stage = "input"
  /\ mapIn' = [mapIn EXCEPT
                 !.stage = "scripted",
                 !.scriptDiags =
                    MapScriptDiagnostics(
                      mapIn.content, mapIn.text.script, mapIn.tsDiags,
                      mapIn.text.startLine,
                      Len(InputDeclarations(mapIn.text.inputs)),
                      CountNewlines(InputDeclarations(mapIn.text.inputs)))]
  /\ MapFrame

\* a diagnostic the template pass pushes
TemplatePushed ==
  [range |-> [start |-> <<5, 4>>, end |-> <<5, 5>>], message |-> "template error",
   source |-> "Lunas Template TS", code |-> 1]

\* what the template pass can push after the script pass: nothing, one or two
\* diagnostics, among them one with the range and message of a script diagnostic
TemplatePushes(scriptDiags) ==
  LET one == {TemplatePushed}
             \cup {[scriptDiags[k] EXCEPT !.source = "Lunas Template TS"] :
                     k \in 1..Len(scriptDiags)}
  IN  {<<>>} \cup {<<d>> : d \in one} \cup {<<d1, d2>> : d1 \in one, d2 \in one}

\* lines 2156-2207: the template diagnostics are pushed after the script ones,
\* the list is deduplicated and sent
PublishPass ==
  /\ mapIn.stage = "scripted"
  /\ \E templateDiags \in TemplatePushes(mapIn.scriptDiags) :
       mapIn' = [mapIn EXCEPT
                   !.stage = "published",
                   !.templateDiags = templateDiags,
                   !.published = Deduplicate(mapIn.scriptDiags \o templateDiags)]
  /\ MapFrame

NextScript == ScriptPass \/ PublishPass

SpecScript == InitScript /\ [][NextScript]_vars

\* the number of injected lines, the label's line and the number of script lines
InjectedLines == CountNewlines(InputDeclarations(mapIn.text.inputs))
ScriptLineCount == CountNewlines(mapIn.text.script) + 1

\* the line and the character of a virtual offset: the newlines before it and the
\* distance from the last of them
LineAt(off) == CountNewlines(SubSeq(mapIn.content, 1, off))
CharacterAt(off) ==
  LET nls == {i \in 1..off : mapIn.content[i] = "\n"}
  IN  IF nls = {} THEN off ELSE off - Max(nls)

\* the engine diagnostics that start at or after the injected declarations
AfterPrefix ==
  SelectSeq(mapIn.tsDiags,
            LAMBDA d : d.start >= Len(InputDeclarations(mapIn.text.inputs)))

Produced == mapIn.scriptDiags \o mapIn.templateDiags

SameKey(d1, d2) == d1.range = d2.range /\ d1.message = d2.message

\* the places of Produced that no earlier place equals in range and message
Firsts == {k \in 1..Len(Produced) : \A i \in 1..(k - 1) : ~SameKey(Produced[i], Produced[k])}

\* C39: no two published diagnostics have the same start, end and message, and
\* the published list is the produced list (script pass, then template pass)
\* without the diagnostics that repeat an earlier one.
C39_PublishedWithoutDuplicates ==
  mapIn.stage = "published" =>
    /\ \A i, j \in 1..Len(mapIn.published) :
         i # j => ~SameKey(mapIn.published[i], mapIn.published[j])
    /\ Len(mapIn.published) = Cardinality(Firsts)
    /\ \A j \in 1..Len(mapIn.published) :
         \E k \in Firsts :
           /\ Cardinality({i \in Firsts : i < k}) = j - 1
           /\ mapIn.published[j] = Produced[k]

\* a template diagnostic repeated a script diagnostic and the script one was kept
C39_ScriptOneKept ==
  /\ mapIn.stage = "published"
  /\ Len(mapIn.scriptDiags) = 2
  /\ SameKey(mapIn.scriptDiags[1], mapIn.scriptDiags[2])
  /\ Len(mapIn.templateDiags) = 2
  /\ SameKey(mapIn.templateDiags[1], mapIn.scriptDiags[1])
  /\ mapIn.templateDiags[2] = TemplatePushed
  /\ mapIn.published = <<mapIn.scriptDiags[1], TemplatePushed>>

-----------------------------------------------------------------------------
(* getLocationInBlock, as the script-block branch of completion and hover  *)
(* calls it.                                                               *)

NullLocation == [kind |-> "null", offset |-> 0]

\* the while loop of getLocationInBlock, lines 104-141; lines[currentLine] is
\* undefined past the last line and reading its length throws
RECURSIVE LocationLoop(_, _, _, _, _)
LocationLoop(lines, enteredLine, enteredOffset, indentSize, globalPosition) ==
  IF ~(enteredLine < Len(lines)) THEN NullLocation
  ELSE LET currentLine == enteredLine + 1
           localOffset == enteredOffset + 1
       IN  IF currentLine >= Len(lines) THEN [kind |-> "threw", offset |-> 0]
           ELSE LET line == lines[currentLine + 1]
                    trimmedLine == SubSeq(line, indentSize + 1, Len(line))
                IN  IF Len(line) <= indentSize
                    THEN IF globalPosition.line = currentLine
                         THEN [kind |-> "offset", offset |-> localOffset]
                         ELSE LocationLoop(lines, currentLine, localOffset, indentSize,
                                           globalPosition)
                    ELSE IF globalPosition.line = currentLine
                    THEN IF globalPosition.column - 1 - indentSize <= Len(trimmedLine)
                         THEN [kind |-> "offset",
                               offset |-> localOffset + globalPosition.column - 1
                                          - indentSize]
                         ELSE NullLocation
                    ELSE LocationLoop(lines, currentLine, localOffset + Len(trimmedLine),
                                      indentSize, globalPosition)

\* part_002 lines 84-148
getLocationInBlock(globalText, localBlockStartLine, localBlockEndLine, indentSize, globalPosition, additionalPositionSize) ==
  IF \/ globalPosition.line < localBlockStartLine
     \/ globalPosition.line > localBlockEndLine
  THEN NullLocation
  ELSE LocationLoop(SplitLines(globalText), localBlockStartLine - 1,
                    -1 + additionalPositionSize, indentSize, globalPosition)

\* the lines of a file: its input declarations, the script label, the script
InputLine(in) == <<"@", "i", "n", "p", "u", "t", " ">> \o in.name \o <<":", " ">> \o in.type

LocateScripts ==
  {<< <<" ", " ", "c", ";">> >>,
   << <<" ", " ", "c", ";">>, <<" ", " ", "d", "e", ";">> >>,
   << <<" ", " ", "c", ";">>, <<>>, <<" ", " ", "d", ";">> >>}

LocateFiles ==
  {[inputs |-> ins,
    text |-> JoinLines([k \in 1..Len(ins) |-> InputLine(ins[k])]
                       \o <<ScriptLabel>> \o ls)] :
     ins \in {<<>>, OneInput, TwoInputs}, ls \in LocateScripts}

MaxColumn == 5

LocateInputs ==
  UNION {{[stage |-> "input", file |-> f,
           position |-> [line |-> l, character |-> c],
           scriptDeclLine |-> 0, endLine |-> 0, additional |-> 0, asked |-> FALSE,
           location |-> NullLocation] :
            l \in 0..(Len(SplitLines(f.text)) - 1), c \in 0..MaxColumn} :
         f \in LocateFiles}

InitLocate ==
  /\ documents = EmptyMap
  /\ scriptContents = EmptyMap
  /\ scriptVersions = EmptyMap
  /\ activeVirtualFile = NoPath
  /\ totalAdditionalPartChars = 0
  /\ totalAdditionalPartLines = 0
  /\ pc = "idle"
  /\ run = NewRun("none", NoUri, NoPath, NoCursor)
  /\ mapIn \in LocateInputs

\* main.ts lines 2582-2612 and 2919-2941: the block's lines from extractScript,
\* the measure of the document's own declarations, then the call; `asked` tells
\* whether the handler's own line test lets the call happen
LocateInScript ==
  /\ mapIn.stage = "input"
  /\ LET ex == extractScript(mapIn.file.text)
         scriptDeclLine == ex.startLine
         scriptContentActualStartLine == scriptDeclLine + 1
         scriptContentActualEndLine ==
           scriptContentActualStartLine + Len(SplitLines(ex.script)) - 1
         additional == Len(InputDeclarations(mapIn.file.inputs))
     IN  mapIn' = [mapIn EXCEPT
                     !.stage = "located",
                     !.scriptDeclLine = scriptDeclLine,
                     !.endLine = scriptContentActualEndLine,
                     !.additional = additional,
                     !.asked = /\ ex.script # <<>>
                               /\ mapIn.position.line >= scriptContentActualStartLine
                               /\ mapIn.position.line <= scriptContentActualEndLine,
                     !.location =
                        getLocationInBlock(
                          mapIn.file.text, scriptDeclLine, scriptContentActualEndLine,
                          INDENT_SIZE,
                          [line |-> mapIn.position.line,
                           column |-> mapIn.position.character],
                          additional)]
  /\ MapFrame

NextLocate == LocateInScript

SpecLocate == InitLocate /\ [][NextLocate]_vars

\* the lines of the file and the stripped length of the block line l
FileLinesOf == SplitLines(mapIn.file.text)
StrippedLength(l) == Max({0, Len(FileLinesOf[l + 1]) - INDENT_SIZE})

RECURSIVE SumStripped(_, _)
SumStripped(from, to) ==
  IF from > to THEN 0 ELSE StrippedLength(from) + 1 + SumStripped(from + 1, to)

\* the cursor is on a line of the script, from the indentation up to the end of
\* the line; scriptDeclLine is the one-based number of the label's line, that
\* is the zero-based number of the first script line
OnScriptLine ==
  /\ mapIn.position.line >= mapIn.scriptDeclLine
  /\ mapIn.position.line < Len(FileLinesOf)
  /\ mapIn.position.character >= INDENT_SIZE
  /\ mapIn.position.character <= Len(FileLinesOf[mapIn.position.line + 1])

\* C38: for a cursor on a script line at character c, the offset is the length of
\* the injected declarations, plus the stripped lengths (and one line terminator
\* each) of the script lines before it, plus c less the indentation; for a
\* cursor line outside the range the function is given, the result is null.
C38_ForwardOffset ==
  mapIn.stage = "located" =>
    /\ OnScriptLine
         => /\ mapIn.location.kind = "offset"
            /\ mapIn.location.offset
                 = mapIn.additional
                   + SumStripped(mapIn.scriptDeclLine, mapIn.position.line - 1)
                   + (mapIn.position.character - INDENT_SIZE)
    /\ (\/ mapIn.position.line < mapIn.scriptDeclLine
        \/ mapIn.position.line > mapIn.endLine)
         => mapIn.location = NullLocation

-----------------------------------------------------------------------------
(* findProjectRootWithBounds over a small directory tree. A directory is   *)
(* the sequence of the names on its path, the file system root is <<>>.    *)

MaxDepth == 2

DirNames == {"a", "b"}

RECURSIVE DirsOfDepth(_)
DirsOfDepth(n) ==
  IF n = 0 THEN {<<>>}
  ELSE {Append(d, x) : d \in DirsOfDepth(n - 1), x \in DirNames}

Dirs == UNION {DirsOfDepth(n) : n \in 0..MaxDepth}

\* path.dirname
dirname(p) == IF p = <<>> THEN <<>> ELSE SubSeq(p, 1, Len(p) - 1)

\* the directories that hold package.json or node_modules: none, one or two
MarkerSets == {ms \in SUBSET Dirs : Cardinality(ms) <= 2}

RootInputs ==
  {[stage |-> "called", markers |-> ms,
    start |-> IF isFile THEN Append(d, "f") ELSE d, isFile |-> isFile,
    stopAt |-> st, currentDir |-> <<>>, result |-> <<>>] :
     ms \in MarkerSets, d \in Dirs, isFile \in BOOLEAN, st \in Dirs}

InitRoot ==
  /\ documents = EmptyMap
  /\ scriptContents = EmptyMap
  /\ scriptVersions = EmptyMap
  /\ activeVirtualFile = NoPath
  /\ totalAdditionalPartChars = 0
  /\ totalAdditionalPartLines = 0
  /\ pc = "idle"
  /\ run = NewRun("none", NoUri, NoPath, NoCursor)
  /\ mapIn \in RootInputs

\* lines 15-18: a file starts the search at its directory
RootBegin ==
  /\ mapIn.stage = "called"
  /\ mapIn' = [mapIn EXCEPT
                 !.stage = "searching",
                 !.currentDir = IF mapIn.isFile THEN dirname(mapIn.start)
                                ELSE mapIn.start]
  /\ MapFrame

\* lines 20-33: one turn of the loop
RootStep ==
  /\ mapIn.stage = "searching"
  /\ LET currentDir == mapIn.currentDir
         parentDir == dirname(currentDir)
     IN  mapIn' =
           IF currentDir \in mapIn.markers
           THEN [mapIn EXCEPT !.stage = "returned", !.result = currentDir]
           ELSE IF currentDir = parentDir \/ currentDir = mapIn.stopAt
           THEN [mapIn EXCEPT !.stage = "returned", !.result = mapIn.stopAt]
           ELSE [mapIn EXCEPT !.currentDir = parentDir]
  /\ MapFrame

NextRoot == RootBegin \/ RootStep

SpecRoot == InitRoot /\ [][NextRoot]_vars

\* d is p or a directory above p
IsAbove(d, p) == Len(d) <= Len(p) /\ SubSeq(p, 1, Len(d)) = d

StartDir == IF mapIn.isFile THEN dirname(mapIn.start) ELSE mapIn.start

\* the directories from the start up to stopAt that hold a marker
MarkedOnPath ==
  {d \in mapIn.markers : IsAbove(d, StartDir) /\ IsAbove(mapIn.stopAt, d)}

\* C40: the search returns the deepest directory between the start and stopAt
\* that holds a marker, stopAt when there is none, and never a directory
\* strictly above stopAt.
C40_NearestMarkedUpToStopAt ==
  mapIn.stage = "returned" =>
    /\ ~(mapIn.result # mapIn.stopAt /\ IsAbove(mapIn.result, mapIn.stopAt))
    /\ IF MarkedOnPath # {}
       THEN mapIn.result \in MarkedOnPath
            /\ \A d \in MarkedOnPath : Len(d) <= Len(mapIn.result)
       ELSE mapIn.result = mapIn.stopAt

=============================================================================
